---- MODULE Spec2Model ----
(***************************************************************************)
(* RMA request engine of UCP (ucp/rma/rma_send.c): the PUT/GET entry       *)
(* points, the request initialisation, the fragment accounting of          *)
(* ucp_rma_request_advance and the bcopy/zcopy completion callbacks.       *)
(*                                                                         *)
(* One worker, driven by one thread.  An API call (ucp_put_nbx /           *)
(* ucp_get_nbx) runs to its return before anything else happens; on the    *)
(* legacy request path the send loop of the call is unfolded into one      *)
(* step per fragment attempt (variable "sending" is the call's position).  *)
(* Hardware completions and the dispatch of the pending queue happen only  *)
(* in progress steps, between calls.                                       *)
(***************************************************************************)
EXTENDS Integers, Sequences, FiniteSets, TLC

(* ---- bounds ---- *)
MaxReqs == 1        \* size of the worker's request pool
MaxLen  == 2        \* largest byte count of a PUT/GET
MaxFrag == 2        \* largest fragment one hardware attempt can carry

Reqs    == 1..MaxReqs
Lengths == 0..MaxLen

(* ---- ucs_status_t values used by the engine ---- *)
UCS_OK                   == "UCS_OK"
UCS_INPROGRESS           == "UCS_INPROGRESS"
UCS_ERR_NO_RESOURCE      == "UCS_ERR_NO_RESOURCE"
UCS_ERR_NO_MEMORY        == "UCS_ERR_NO_MEMORY"
UCS_ERR_INVALID_PARAM    == "UCS_ERR_INVALID_PARAM"
UCS_ERR_UNREACHABLE      == "UCS_ERR_UNREACHABLE"
UCS_ERR_IO_ERROR         == "UCS_ERR_IO_ERROR"
UCS_ERR_ENDPOINT_TIMEOUT == "UCS_ERR_ENDPOINT_TIMEOUT"

\* errors a transport can report for a fragment, besides "no resource"
HwErrors == {UCS_ERR_IO_ERROR, UCS_ERR_ENDPOINT_TIMEOUT}

\* UCS_STATUS_IS_ERR(status): status < 0; UCS_OK = 0, UCS_INPROGRESS = 1
UCS_STATUS_IS_ERR(status) == status \notin {UCS_OK, UCS_INPROGRESS}

\* values a call's return can take that are not a status
PASS == "PASS"      \* a check macro fell through
PTR  == "PTR"       \* UCS_PTR_IS_PTR: the call returned a request handle
NONE == "NONE"      \* nothing (call still running, no hardware op issued)

(* ---- ucp_request_param_t::op_attr_mask bits the engine looks at ---- *)
UCP_OP_ATTR_FIELD_DATATYPE     == "FIELD_DATATYPE"
UCP_OP_ATTR_FLAG_NO_IMM_CMPL   == "FLAG_NO_IMM_CMPL"
UCP_OP_ATTR_FLAG_FORCE_IMM_CMPL == "FLAG_FORCE_IMM_CMPL"

\* op_attr_mask values a caller passes, as far as the engine tells them
\* apart
AttrMasks ==
    SUBSET {UCP_OP_ATTR_FIELD_DATATYPE, UCP_OP_ATTR_FLAG_NO_IMM_CMPL,
            UCP_OP_ATTR_FLAG_FORCE_IMM_CMPL}

VARIABLES
    cfg,        \* context / endpoint configuration, fixed at construction
    req,        \* the request pool: Reqs -> ucp_request_t
    pending,    \* UCT pending queue of the RMA lane (FIFO of request ids)
    inflight,   \* Reqs -> zero-copy operations the hardware still owes
    sending,    \* request inside the send loop of the running call, 0 if none
    call,       \* the API call that is running or has just returned, and
                \*   what it did
    hist,       \* Reqs -> per-request observation history (ghost)
    uaf,        \* a step has operated on a released request (ghost)
    rk,         \* a packed remote key and what was unpacked from it
    um,         \* a user memory handle kept by ucp_mem_rereg_mds, the
                \*   registrations its MDs hold and the last call (ghost)
    mh,         \* the registration cache: its memory handles and the last
                \*   operation on it (ghost)
    nbi,        \* the last return of ucp_put_nbi / ucp_get_nbi (ghost)
    cq,         \* a completion queue of the IB device and the last poll
    wd          \* the test watchdog: its thread, the watched thread and
                \*   the mutex, condition variable and barrier they share

\* the state of the memory registration layer (ucp_mm.h)
mmvars == <<rk, um, mh>>

\* the state of the RMA engine (rma_send.c)
rmavars == <<cfg, req, pending, inflight, sending, call, hist, uaf>>

\* the state of what surrounds the engine: the nbi wrappers, the
\* completion queue (ib_device.h) and the test watchdog (test_helpers.cc)
auxvars == <<nbi, cq, wd>>

vars == <<rmavars, mmvars, auxvars>>

Min(a, b) == IF a < b THEN a ELSE b

(***************************************************************************)
(* ucp_request_t, the fields the RMA engine uses                           *)
(***************************************************************************)
\* a slot of the request mpool that is not in use
FreeReq ==
    [ alloc       |-> FALSE,     \* taken from the mpool
      op          |-> NONE,      \* "PUT" / "GET"
      path        |-> NONE,      \* "rma" (legacy) / "proto"
      sent        |-> FALSE,     \* handed to the send path
      length      |-> 0,         \* send.length
      buffer      |-> 0,         \* send.buffer, as offset from the user buffer
      remote_addr |-> 0,         \* send.rma.remote_addr, as offset
      comp_func   |-> NONE,      \* send.state.uct_comp.func: "bcopy"/"zcopy"
      comp_count  |-> 0,         \* send.state.uct_comp.count
      comp_status |-> UCS_OK,    \* send.state.uct_comp.status
      dt_offset   |-> 0,         \* send.state.dt.offset
      memh        |-> FALSE,     \* user buffer registered for the lane
      completed   |-> FALSE,     \* UCP_REQUEST_FLAG_COMPLETED
      cb_count    |-> 0,         \* times the user callback was invoked
      cb_status   |-> NONE,      \* status given to the user callback
      cb_registered |-> FALSE,   \* the user callback ran with the buffer
                                 \*   still registered (ghost)
      put_count   |-> 0,         \* times the request was returned to the pool
      reg_count   |-> 0,         \* registrations of the user buffer
      dereg_count |-> 0,         \* deregistrations of the user buffer
      id_released |-> 0 ]        \* ucp_send_request_id_release calls

\* per-request ghost history, reset when the slot is allocated
NoHist ==
    [ init_length |-> 0,         \* length the request started with
      first_bad   |-> UCS_OK,    \* first status other than OK among them,
                                 \*   in the order the engine saw them
      zero_count  |-> 0,         \* transitions of length from > 0 to 0
      early_cb    |-> FALSE,     \* the completion callback has run while
                                 \*   unsent bytes remained
      prev_length |-> 0,         \* the call of ucp_rma_request_advance made
      frag_length |-> 0,         \*   by the last step, if it made one: the
      status      |-> NONE ]     \*   length before it, its frag_length and
                                 \*   its status

(***************************************************************************)
(* Request helpers of ucp_request.inl / uct, used by rma_send.c            *)
(***************************************************************************)
\* ucp_send_request_id_release(req)
ucp_send_request_id_release(q) == [q EXCEPT !.id_released = @ + 1]

\* ucp_request_send_buffer_dereg(req): drop the registration of the user
\* buffer made by ucp_request_send_reg_lane
ucp_request_send_buffer_dereg(q) ==
    IF q.memh THEN [q EXCEPT !.memh = FALSE, !.dereg_count = @ + 1] ELSE q

\* ucp_request_complete_send(req, status): mark completed, invoke the user
\* callback with the status, give the request back to the pool
ucp_request_complete_send(q, status) ==
    [q EXCEPT !.completed = TRUE,
              !.cb_count  = @ + 1,
              !.cb_status = status,
              !.cb_registered = @ \/ q.memh,
              !.alloc     = FALSE,
              !.put_count = @ + 1]

(***************************************************************************)
(* Completion callbacks, rma_send.c                                        *)
(***************************************************************************)
\* the callback reporting success whatever the completion's status is
bcopy_completion_status_ok(q) ==
    IF q.length = q.dt_offset
    THEN ucp_request_complete_send(ucp_send_request_id_release(q), UCS_OK)
    ELSE q

\* ucp_rma_request_bcopy_completion(self)
ucp_rma_request_bcopy_completion(q) ==
    IF q.length = q.dt_offset
    THEN ucp_request_complete_send(ucp_send_request_id_release(q),
                                   q.comp_status)
    ELSE q

\* the callback without the length check of the comment above
\* ucp_rma_request_advance: completes whenever the counter reaches zero
zcopy_completion_no_length_check(q) ==
    ucp_request_complete_send(
        ucp_request_send_buffer_dereg(ucp_send_request_id_release(q)),
        q.comp_status)

\* the callback completing the request without deregistering its buffer
zcopy_completion_no_dereg(q) ==
    IF q.length = q.dt_offset
    THEN ucp_request_complete_send(ucp_send_request_id_release(q),
                                   q.comp_status)
    ELSE q

\* the same, completing only a request whose length has reached zero
zcopy_completion_length_zero_only(q) ==
    IF q.length = 0
    THEN ucp_request_complete_send(
             ucp_request_send_buffer_dereg(ucp_send_request_id_release(q)),
             q.comp_status)
    ELSE q

\* the callback releasing the request id even when unsent bytes remain
zcopy_completion_id_release_always(q) ==
    IF q.length = q.dt_offset
    THEN ucp_request_complete_send(
             ucp_request_send_buffer_dereg(ucp_send_request_id_release(q)),
             q.comp_status)
    ELSE ucp_send_request_id_release(q)

\* ucp_rma_request_zcopy_completion(self)
ucp_rma_request_zcopy_completion(q) ==
    IF q.length = q.dt_offset
    THEN ucp_request_complete_send(
             ucp_request_send_buffer_dereg(ucp_send_request_id_release(q)),
             q.comp_status)
    ELSE q

\* req->send.state.uct_comp.func(&req->send.state.uct_comp)
uct_comp_func(q) ==
    IF q.comp_func = "zcopy" THEN ucp_rma_request_zcopy_completion(q)
    ELSE IF q.comp_func = "bcopy" THEN ucp_rma_request_bcopy_completion(q)
    ELSE q

\* uct_completion_update_status(comp, status): the first error sticks
uct_completion_update_status(q, status) ==
    IF status # UCS_OK /\ q.comp_status = UCS_OK
    THEN [q EXCEPT !.comp_status = status]
    ELSE q

\* uct_invoke_completion(comp, status): what the transport does when one
\* zero-copy operation finishes
uct_invoke_completion(q, status) ==
    LET q1 == uct_completion_update_status(q, status)
        q2 == [q1 EXCEPT !.comp_count = @ - 1]
    IN  IF q2.comp_count = 0 THEN uct_comp_func(q2) ELSE q2

\* ucp_send_request_invoke_uct_completion(req)
ucp_send_request_invoke_uct_completion(q) ==
    IF q.comp_count = 0 THEN uct_comp_func(q) ELSE q

\* ucp_request_send_state_reset(req, comp_cb, UCP_REQUEST_SEND_PROTO_RMA)
ucp_request_send_state_reset(q, comp_cb) ==
    [q EXCEPT !.comp_func   = comp_cb,
              !.comp_count  = 0,
              !.comp_status = UCS_OK,
              !.dt_offset   = 0]

\* ucp_request_send_state_ff(req, status): a hardware error aborts the
\* request; the unsent bytes are skipped by fast-forwarding the processed
\* offset, and the request completes with the error once nothing is
\* outstanding
ucp_request_send_state_ff(q, status) ==
    LET q1 == [q EXCEPT !.dt_offset = q.length]
        q2 == uct_completion_update_status(q1, status)
    IN  IF q2.comp_count = 0 THEN uct_comp_func(q2) ELSE q2

\* ucp_request_send_state_advance(req, NULL, UCP_REQUEST_SEND_PROTO_RMA,
\* status): only an operation the hardware still works on (in progress)
\* raises the counter
ucp_request_send_state_advance(q, status) ==
    IF UCS_STATUS_IS_ERR(status)
    THEN IF status # UCS_ERR_NO_RESOURCE
         THEN ucp_request_send_state_ff(q, status)
         ELSE q
    ELSE IF status = UCS_INPROGRESS
         THEN [q EXCEPT !.comp_count = @ + 1]
         ELSE q

(***************************************************************************)
(* ucp_rma_request_advance, rma_send.c                                     *)
(***************************************************************************)
\* the same, but calling the completion callback directly when the length
\* reaches 0, whatever the number of outstanding zero-copy operations
advance_ignoring_outstanding(q, frag_length, status) ==
    LET q1 == ucp_request_send_state_advance(q, status)
        q2 == [q1 EXCEPT !.length = @ - frag_length]
    IN  IF UCS_STATUS_IS_ERR(status)
        THEN [ req |-> q1,
               ret |-> IF status = UCS_ERR_NO_RESOURCE
                       THEN UCS_ERR_NO_RESOURCE ELSE UCS_OK ]
        ELSE IF q2.length = 0
        THEN [ req |-> uct_comp_func(q2), ret |-> UCS_OK ]
        ELSE [ req |-> [q2 EXCEPT !.buffer      = @ + frag_length,
                                  !.remote_addr = @ + frag_length],
               ret |-> UCS_INPROGRESS ]

\* the same, but asking for a retry after any error
advance_retry_on_error(q, frag_length, status) ==
    LET q1 == ucp_request_send_state_advance(q, status)
        q2 == [q1 EXCEPT !.length = @ - frag_length]
    IN  IF UCS_STATUS_IS_ERR(status)
        THEN [ req |-> q1, ret |-> UCS_ERR_NO_RESOURCE ]
        ELSE IF q2.length = 0
        THEN [ req |-> ucp_send_request_invoke_uct_completion(q2),
               ret |-> UCS_OK ]
        ELSE [ req |-> [q2 EXCEPT !.buffer      = @ + frag_length,
                                  !.remote_addr = @ + frag_length],
               ret |-> UCS_INPROGRESS ]

\* the same, but accounting the fragment before looking at its status
advance_decrement_before_check(q, frag_length, status) ==
    LET q1 == ucp_request_send_state_advance(q, status)
        q2 == [q1 EXCEPT !.length = @ - frag_length]
    IN  IF UCS_STATUS_IS_ERR(status)
        THEN [ req |-> q2,
               ret |-> IF status = UCS_ERR_NO_RESOURCE
                       THEN UCS_ERR_NO_RESOURCE ELSE UCS_OK ]
        ELSE IF q2.length = 0
        THEN [ req |-> ucp_send_request_invoke_uct_completion(q2),
               ret |-> UCS_OK ]
        ELSE [ req |-> [q2 EXCEPT !.buffer      = @ + frag_length,
                                  !.remote_addr = @ + frag_length],
               ret |-> UCS_INPROGRESS ]

\* the same, but leaving the remote address where it was
advance_buffer_only(q, frag_length, status) ==
    LET q1 == ucp_request_send_state_advance(q, status)
        q2 == [q1 EXCEPT !.length = @ - frag_length]
    IN  IF UCS_STATUS_IS_ERR(status)
        THEN [ req |-> q1,
               ret |-> IF status = UCS_ERR_NO_RESOURCE
                       THEN UCS_ERR_NO_RESOURCE ELSE UCS_OK ]
        ELSE IF q2.length = 0
        THEN [ req |-> ucp_send_request_invoke_uct_completion(q2),
               ret |-> UCS_OK ]
        ELSE [ req |-> [q2 EXCEPT !.buffer = @ + frag_length],
               ret |-> UCS_INPROGRESS ]

\* the same, but never calling the completion when the length reaches 0
advance_without_completion(q, frag_length, status) ==
    LET q1 == ucp_request_send_state_advance(q, status)
        q2 == [q1 EXCEPT !.length = @ - frag_length]
    IN  IF UCS_STATUS_IS_ERR(status)
        THEN [ req |-> q1,
               ret |-> IF status = UCS_ERR_NO_RESOURCE
                       THEN UCS_ERR_NO_RESOURCE ELSE UCS_OK ]
        ELSE IF q2.length = 0
        THEN [ req |-> q2, ret |-> UCS_OK ]
        ELSE [ req |-> [q2 EXCEPT !.buffer      = @ + frag_length,
                                  !.remote_addr = @ + frag_length],
               ret |-> UCS_INPROGRESS ]

\* the same, but taking every sent fragment for the whole message
advance_whole_length(q, frag_length, status) ==
    LET q1 == ucp_request_send_state_advance(q, status)
        q2 == [q1 EXCEPT !.length = 0]
    IN  IF UCS_STATUS_IS_ERR(status)
        THEN [ req |-> q1,
               ret |-> IF status = UCS_ERR_NO_RESOURCE
                       THEN UCS_ERR_NO_RESOURCE ELSE UCS_OK ]
        ELSE [ req |-> ucp_send_request_invoke_uct_completion(q2),
               ret |-> UCS_OK ]

\* the same, counting every accepted fragment as an outstanding completion
advance_counting_every_fragment(q, frag_length, status) ==
    LET q1 == ucp_request_send_state_advance(
                  q, IF status = UCS_OK THEN UCS_INPROGRESS ELSE status)
        q2 == [q1 EXCEPT !.length = @ - frag_length]
    IN  IF UCS_STATUS_IS_ERR(status)
        THEN [ req |-> q1,
               ret |-> IF status = UCS_ERR_NO_RESOURCE
                       THEN UCS_ERR_NO_RESOURCE ELSE UCS_OK ]
        ELSE IF q2.length = 0
        THEN [ req |-> ucp_send_request_invoke_uct_completion(q2),
               ret |-> UCS_OK ]
        ELSE [ req |-> [q2 EXCEPT !.buffer      = @ + frag_length,
                                  !.remote_addr = @ + frag_length],
               ret |-> UCS_INPROGRESS ]

\* the same, but moving buffer and remote address past the last fragment
advance_last_moves_buffer(q, frag_length, status) ==
    LET q1 == ucp_request_send_state_advance(q, status)
        q2 == [q1 EXCEPT !.length = @ - frag_length,
                         !.buffer      = @ + frag_length,
                         !.remote_addr = @ + frag_length]
    IN  IF UCS_STATUS_IS_ERR(status)
        THEN [ req |-> q1,
               ret |-> IF status = UCS_ERR_NO_RESOURCE
                       THEN UCS_ERR_NO_RESOURCE ELSE UCS_OK ]
        ELSE IF q2.length = 0
        THEN [ req |-> ucp_send_request_invoke_uct_completion(q2),
               ret |-> UCS_OK ]
        ELSE [ req |-> q2, ret |-> UCS_INPROGRESS ]

\* ucp_rma_request_advance(req, frag_length, status, req_id): the request
\* after the call and the status the progress function returns
ucp_rma_request_advance(q, frag_length, status) ==
    LET q1 == ucp_request_send_state_advance(q, status)
        q2 == [q1 EXCEPT !.length = @ - frag_length]
    IN  IF UCS_STATUS_IS_ERR(status)
        THEN [ req |-> q1,
               ret |-> IF status = UCS_ERR_NO_RESOURCE
                       THEN UCS_ERR_NO_RESOURCE ELSE UCS_OK ]
        ELSE IF q2.length = 0
        THEN [ req |-> ucp_send_request_invoke_uct_completion(q2),
               ret |-> UCS_OK ]
        ELSE [ req |-> [q2 EXCEPT !.buffer      = @ + frag_length,
                                  !.remote_addr = @ + frag_length],
               ret |-> UCS_INPROGRESS ]

(***************************************************************************)
(* Parameter checks, rma_send.c                                            *)
(***************************************************************************)
\* UCP_CONTEXT_CHECK_FEATURE_FLAGS(context, UCP_FEATURE_RMA, action):
\* TRUE when the action (return InvalidParam) is taken
UCP_CONTEXT_CHECK_FEATURE_FLAGS(c) == ~c.features_rma

\* the check with the comparison the wrong way round
check_buffer_inverted(c, buffer_null) == c.params_check /\ ~buffer_null

\* UCP_RMA_CHECK_BUFFER(buffer, action): TRUE when the action is taken
UCP_RMA_CHECK_BUFFER(c, buffer_null) == c.params_check /\ buffer_null

\* UCP_RMA_CHECK_ZERO_LENGTH(length, action): TRUE when the action is taken
UCP_RMA_CHECK_ZERO_LENGTH(length) == length = 0

\* the checks with the zero-length test after the buffer test
check_ptr_buffer_first(c, buffer_null, length) ==
    IF UCP_CONTEXT_CHECK_FEATURE_FLAGS(c) THEN UCS_ERR_INVALID_PARAM
    ELSE IF UCP_RMA_CHECK_BUFFER(c, buffer_null) THEN UCS_ERR_INVALID_PARAM
    ELSE IF UCP_RMA_CHECK_ZERO_LENGTH(length) THEN UCS_OK
    ELSE PASS

\* the checks with the zero-length test before the feature test
check_ptr_zero_length_first(c, buffer_null, length) ==
    IF UCP_RMA_CHECK_ZERO_LENGTH(length) THEN UCS_OK
    ELSE IF UCP_CONTEXT_CHECK_FEATURE_FLAGS(c) THEN UCS_ERR_INVALID_PARAM
    ELSE IF UCP_RMA_CHECK_BUFFER(c, buffer_null) THEN UCS_ERR_INVALID_PARAM
    ELSE PASS

\* UCP_RMA_CHECK_PTR(context, buffer, length): the status the caller
\* returns, or PASS when the macro falls through (NULL is UCS_OK)
UCP_RMA_CHECK_PTR(c, buffer_null, length) ==
    IF UCP_CONTEXT_CHECK_FEATURE_FLAGS(c) THEN UCS_ERR_INVALID_PARAM
    ELSE IF UCP_RMA_CHECK_ZERO_LENGTH(length) THEN UCS_OK
    ELSE IF UCP_RMA_CHECK_BUFFER(c, buffer_null) THEN UCS_ERR_INVALID_PARAM
    ELSE PASS

(***************************************************************************)
(* Request pool                                                            *)
(***************************************************************************)
FreeSlots(pool) == { r \in Reqs : ~pool[r].alloc }

\* ucp_request_get_param(worker, param, fail): the slot handed out, 0 when
\* the pool is exhausted (the caller then fails with NoMemory)
ucp_request_get_param(pool) ==
    IF FreeSlots(pool) = {} THEN 0
    ELSE CHOOSE r \in FreeSlots(pool) : \A o \in FreeSlots(pool) : r <= o

(***************************************************************************)
(* Request initialisation and the legacy request path, rma_send.c          *)
(***************************************************************************)
\* the same, with a length equal to the threshold still taken for a
\* buffered copy
request_init_threshold_inclusive(op, length, zcopy_thresh, memh_status, reg_status) ==
    LET q0 == [FreeReq EXCEPT !.alloc = TRUE, !.op = op, !.path = "rma",
                              !.length = length, !.buffer = 0,
                              !.remote_addr = 0]
        q1 == ucp_request_send_state_reset(
                  q0, IF length <= zcopy_thresh THEN "bcopy" ELSE "zcopy")
    IN  IF length <= zcopy_thresh THEN [req |-> q1, status |-> UCS_OK]
        ELSE IF memh_status # UCS_OK THEN [req |-> q1, status |-> memh_status]
        ELSE IF reg_status # UCS_OK THEN [req |-> q1, status |-> reg_status]
        ELSE [ req |-> [q1 EXCEPT !.memh = TRUE, !.reg_count = @ + 1],
               status |-> UCS_OK ]

\* ucp_rma_request_init(req, ep, buffer, length, remote_addr, rkey, cb,
\* zcopy_thresh, param): the initialised request and the status returned;
\* memh_status / reg_status are the outcomes of
\* ucp_send_request_set_user_memh and ucp_request_send_reg_lane
ucp_rma_request_init(op, length, zcopy_thresh, memh_status, reg_status) ==
    LET q0 == [FreeReq EXCEPT !.alloc = TRUE, !.op = op, !.path = "rma",
                              !.length = length, !.buffer = 0,
                              !.remote_addr = 0]
        q1 == ucp_request_send_state_reset(
                  q0, IF length < zcopy_thresh THEN "bcopy" ELSE "zcopy")
    IN  IF length < zcopy_thresh THEN [req |-> q1, status |-> UCS_OK]
        ELSE IF memh_status # UCS_OK THEN [req |-> q1, status |-> memh_status]
        ELSE IF reg_status # UCS_OK THEN [req |-> q1, status |-> reg_status]
        ELSE [ req |-> [q1 EXCEPT !.memh = TRUE, !.reg_count = @ + 1],
               status |-> UCS_OK ]

\* what a call did, as far as it got: its return (NONE while the send loop
\* of ucp_rma_send_request still runs), the inline hardware operation, the
\* request slot it took from the pool and the request it left there
CallResult(ret, hw_short, hw_status, slot, q, cs) ==
    [ ret |-> ret, hw_short |-> hw_short, hw_status |-> hw_status,
      slot |-> slot, req |-> q, cs_enter |-> cs,
      cs_exit |-> IF ret = NONE THEN 0 ELSE cs ]

\* the same, reporting an exhausted pool as a lack of send resources
rma_nonblocking_pool_no_resource(pool, op, length, zcopy_thresh, memh_status, reg_status, hw_short, hw_status) ==
    LET slot == ucp_request_get_param(pool)
        init == ucp_rma_request_init(op, length, zcopy_thresh, memh_status,
                                     reg_status)
    IN  IF slot = 0
        THEN CallResult(UCS_ERR_NO_RESOURCE, hw_short, hw_status, 0, FreeReq, 1)
        ELSE IF init.status # UCS_OK
        THEN CallResult(init.status, hw_short, hw_status, slot, init.req, 1)
        ELSE CallResult(NONE, hw_short, hw_status, slot,
                        [init.req EXCEPT !.sent = TRUE], 1)

\* ucp_rma_nonblocking(ep, buffer, length, remote_addr, rkey, progress_cb,
\* zcopy_thresh, param), up to the call of ucp_rma_send_request
ucp_rma_nonblocking(pool, op, length, zcopy_thresh, memh_status, reg_status, hw_short, hw_status) ==
    LET slot == ucp_request_get_param(pool)
        init == ucp_rma_request_init(op, length, zcopy_thresh, memh_status,
                                     reg_status)
    IN  IF slot = 0
        THEN CallResult(UCS_ERR_NO_MEMORY, hw_short, hw_status, 0, FreeReq, 1)
        ELSE IF init.status # UCS_OK
        THEN CallResult(init.status, hw_short, hw_status, slot, init.req, 1)
        ELSE CallResult(NONE, hw_short, hw_status, slot,
                        [init.req EXCEPT !.sent = TRUE], 1)

\* ucp_proto_request_send_op(ep, proto_select, cfg_index, req, ...): the
\* request is handed to the protocol layer, which owns it from here on
ucp_proto_request_send_op(op, length) ==
    [FreeReq EXCEPT !.alloc = TRUE, !.op = op, !.path = "proto",
                    !.length = length, !.sent = TRUE]

(***************************************************************************)
(* PUT, rma_send.c                                                         *)
(***************************************************************************)
\* ucp_proto_select_is_short(ep, &rkey_config->put_short, length)
ucp_proto_select_is_short(c, length) == length <= c.max_put_short

\* the same, ignoring the transport when it reports no send resources
put_send_short_drop_no_resource(c, length, mask, fence, hw_status) ==
    IF mask \cap {UCP_OP_ATTR_FIELD_DATATYPE,
                  UCP_OP_ATTR_FLAG_NO_IMM_CMPL} # {}
    THEN [status |-> UCS_ERR_NO_RESOURCE, issued |-> FALSE]
    ELSE IF ~ucp_proto_select_is_short(c, length)
    THEN [status |-> UCS_ERR_NO_RESOURCE, issued |-> FALSE]
    ELSE IF fence
    THEN [status |-> UCS_ERR_NO_RESOURCE, issued |-> FALSE]
    ELSE [status |-> IF hw_status = UCS_ERR_NO_RESOURCE
                     THEN UCS_OK ELSE hw_status,
          issued |-> TRUE]

\* the same, testing the datatype field only and not NO_IMM_CMPL
put_send_short_ignoring_no_imm_cmpl(c, length, mask, fence, hw_status) ==
    IF UCP_OP_ATTR_FIELD_DATATYPE \in mask
    THEN [status |-> UCS_ERR_NO_RESOURCE, issued |-> FALSE]
    ELSE IF ~ucp_proto_select_is_short(c, length)
    THEN [status |-> UCS_ERR_NO_RESOURCE, issued |-> FALSE]
    ELSE IF fence
    THEN [status |-> UCS_ERR_NO_RESOURCE, issued |-> FALSE]
    ELSE [status |-> hw_status, issued |-> TRUE]

\* ucp_put_send_short(ep, buffer, length, remote_addr, rkey, param): the
\* status returned and whether uct_ep_put_short was called; hw_status is
\* what the transport answers if it is
ucp_put_send_short(c, length, mask, fence, hw_status) ==
    IF mask \cap {UCP_OP_ATTR_FIELD_DATATYPE,
                  UCP_OP_ATTR_FLAG_NO_IMM_CMPL} # {}
    THEN [status |-> UCS_ERR_NO_RESOURCE, issued |-> FALSE]
    ELSE IF ~ucp_proto_select_is_short(c, length)
    THEN [status |-> UCS_ERR_NO_RESOURCE, issued |-> FALSE]
    ELSE IF fence
    THEN [status |-> UCS_ERR_NO_RESOURCE, issued |-> FALSE]
    ELSE [status |-> hw_status, issued |-> TRUE]

\* the branch of proto_enable without the test of FORCE_IMM_CMPL
put_nbx_proto_ignoring_force_imm(c, pool, count, mask, fence, hw_status) ==
    LET short == ucp_put_send_short(c, count, mask, fence, hw_status)
        slot  == ucp_request_get_param(pool)
        hw    == IF short.issued THEN 1 ELSE 0
        hws   == IF short.issued THEN hw_status ELSE NONE
    IN  IF short.status # UCS_ERR_NO_RESOURCE
        THEN CallResult(short.status, hw, hws, 0, FreeReq, 1)
        ELSE IF slot = 0
        THEN CallResult(UCS_ERR_NO_MEMORY, hw, hws, 0, FreeReq, 1)
        ELSE CallResult(PTR, hw, hws, slot,
                        ucp_proto_request_send_op("PUT", count), 1)

\* ucp_put_nbx, the branch of context->config.ext.proto_enable
ucp_put_nbx_proto(c, pool, count, mask, fence, hw_status) ==
    LET short == ucp_put_send_short(c, count, mask, fence, hw_status)
        slot  == ucp_request_get_param(pool)
        hw    == IF short.issued THEN 1 ELSE 0
        hws   == IF short.issued THEN hw_status ELSE NONE
    IN  IF \/ short.status # UCS_ERR_NO_RESOURCE
           \/ UCP_OP_ATTR_FLAG_FORCE_IMM_CMPL \in mask
        THEN CallResult(short.status, hw, hws, 0, FreeReq, 1)
        ELSE IF slot = 0
        THEN CallResult(UCS_ERR_NO_MEMORY, hw, hws, 0, FreeReq, 1)
        ELSE CallResult(PTR, hw, hws, slot,
                        ucp_proto_request_send_op("PUT", count), 1)

\* width of size_t and ssize_t, in bits
SizeBits == 4

SIZE_MAX == 2^SizeBits - 1

size_t == 0 .. SIZE_MAX

\* (ssize_t)count: the value of the same bits read as a signed integer
ssize_t(count) ==
    IF count >= 2^(SizeBits - 1) THEN count - 2^SizeBits ELSE count

\* the legacy branch returning whatever the inline put answered
put_nbx_legacy_no_fallback(c, pool, count, mask, hw_status, resolve_status, memh_status, reg_status) ==
    LET fast == /\ UCP_OP_ATTR_FLAG_NO_IMM_CMPL \notin mask
                /\ ssize_t(count) <= c.max_put_short
        hw   == IF fast THEN 1 ELSE 0
        hws  == IF fast THEN hw_status ELSE NONE
    IN  IF resolve_status # UCS_OK
        THEN CallResult(resolve_status, 0, NONE, 0, FreeReq, 1)
        ELSE IF fast
        THEN CallResult(hw_status, 1, hw_status, 0, FreeReq, 1)
        ELSE IF UCP_OP_ATTR_FLAG_FORCE_IMM_CMPL \in mask
        THEN CallResult(UCS_ERR_NO_RESOURCE, hw, hws, 0, FreeReq, 1)
        ELSE ucp_rma_nonblocking(pool, "PUT", count, c.put_zcopy_thresh,
                                 memh_status, reg_status, hw, hws)

\* ucp_put_nbx, the legacy branch; resolve_status is the result of
\* UCP_RKEY_RESOLVE
ucp_put_nbx_legacy(c, pool, count, mask, hw_status, resolve_status, memh_status, reg_status) ==
    LET fast == /\ UCP_OP_ATTR_FLAG_NO_IMM_CMPL \notin mask
                /\ ssize_t(count) <= c.max_put_short
        hw   == IF fast THEN 1 ELSE 0
        hws  == IF fast THEN hw_status ELSE NONE
    IN  IF resolve_status # UCS_OK
        THEN CallResult(resolve_status, 0, NONE, 0, FreeReq, 1)
        ELSE IF fast /\ hw_status # UCS_ERR_NO_RESOURCE
        THEN CallResult(hw_status, 1, hw_status, 0, FreeReq, 1)
        ELSE IF UCP_OP_ATTR_FLAG_FORCE_IMM_CMPL \in mask
        THEN CallResult(UCS_ERR_NO_RESOURCE, hw, hws, 0, FreeReq, 1)
        ELSE ucp_rma_nonblocking(pool, "PUT", count, c.put_zcopy_thresh,
                                 memh_status, reg_status, hw, hws)

\* ucp_put_nbx(ep, buffer, count, remote_addr, rkey, param), up to the call
\* of ucp_rma_send_request on the legacy request path.  fence is
\* ucp_ep_rma_is_fence_required(ep)
ucp_put_nbx(c, pool, count, buffer_null, mask, fence, hw_status, resolve_status, memh_status, reg_status) ==
    LET chk == UCP_RMA_CHECK_PTR(c, buffer_null, count)
    IN  IF chk # PASS THEN CallResult(chk, 0, NONE, 0, FreeReq, 0)
        ELSE IF c.proto_enable
        THEN ucp_put_nbx_proto(c, pool, count, mask, fence, hw_status)
        ELSE ucp_put_nbx_legacy(c, pool, count, mask, hw_status,
                                resolve_status, memh_status, reg_status)

(***************************************************************************)
(* GET, rma_send.c                                                         *)
(***************************************************************************)
\* the same, returning the status of a failed UCP_RKEY_RESOLVE directly
\* instead of going through out_unlock
get_nbx_resolve_failure_no_unlock(c, pool, count, buffer_null, mask, resolve_status, memh_status, reg_status) ==
    LET chk  == UCP_RMA_CHECK_PTR(c, buffer_null, count)
        slot == ucp_request_get_param(pool)
    IN  IF UCP_OP_ATTR_FLAG_FORCE_IMM_CMPL \in mask
        THEN CallResult(UCS_ERR_NO_RESOURCE, 0, NONE, 0, FreeReq, 0)
        ELSE IF chk # PASS THEN CallResult(chk, 0, NONE, 0, FreeReq, 0)
        ELSE IF c.proto_enable
        THEN IF slot = 0
             THEN CallResult(UCS_ERR_NO_MEMORY, 0, NONE, 0, FreeReq, 1)
             ELSE CallResult(PTR, 0, NONE, slot,
                             ucp_proto_request_send_op("GET", count), 1)
        ELSE IF resolve_status # UCS_OK
        THEN [CallResult(resolve_status, 0, NONE, 0, FreeReq, 1)
                 EXCEPT !.cs_exit = 0]
        ELSE ucp_rma_nonblocking(pool, "GET", count, c.get_zcopy_thresh,
                                 memh_status, reg_status, 0, NONE)

\* the same, looking at FORCE_IMM_CMPL only after the parameter checks and
\* inside the critical section
get_nbx_force_imm_after_checks(c, pool, count, buffer_null, mask, resolve_status, memh_status, reg_status) ==
    LET chk  == UCP_RMA_CHECK_PTR(c, buffer_null, count)
        slot == ucp_request_get_param(pool)
    IN  IF chk # PASS THEN CallResult(chk, 0, NONE, 0, FreeReq, 0)
        ELSE IF UCP_OP_ATTR_FLAG_FORCE_IMM_CMPL \in mask
        THEN CallResult(UCS_ERR_NO_RESOURCE, 0, NONE, 0, FreeReq, 1)
        ELSE IF c.proto_enable
        THEN IF slot = 0
             THEN CallResult(UCS_ERR_NO_MEMORY, 0, NONE, 0, FreeReq, 1)
             ELSE CallResult(PTR, 0, NONE, slot,
                             ucp_proto_request_send_op("GET", count), 1)
        ELSE IF resolve_status # UCS_OK
        THEN CallResult(resolve_status, 0, NONE, 0, FreeReq, 1)
        ELSE ucp_rma_nonblocking(pool, "GET", count, c.get_zcopy_thresh,
                                 memh_status, reg_status, 0, NONE)

\* ucp_get_nbx(ep, buffer, count, remote_addr, rkey, param), up to the call
\* of ucp_rma_send_request on the legacy request path
ucp_get_nbx(c, pool, count, buffer_null, mask, resolve_status, memh_status, reg_status) ==
    LET chk  == UCP_RMA_CHECK_PTR(c, buffer_null, count)
        slot == ucp_request_get_param(pool)
    IN  IF UCP_OP_ATTR_FLAG_FORCE_IMM_CMPL \in mask
        THEN CallResult(UCS_ERR_NO_RESOURCE, 0, NONE, 0, FreeReq, 0)
        ELSE IF chk # PASS THEN CallResult(chk, 0, NONE, 0, FreeReq, 0)
        ELSE IF c.proto_enable
        THEN IF slot = 0
             THEN CallResult(UCS_ERR_NO_MEMORY, 0, NONE, 0, FreeReq, 1)
             ELSE CallResult(PTR, 0, NONE, slot,
                             ucp_proto_request_send_op("GET", count), 1)
        ELSE IF resolve_status # UCS_OK
        THEN CallResult(resolve_status, 0, NONE, 0, FreeReq, 1)
        ELSE ucp_rma_nonblocking(pool, "GET", count, c.get_zcopy_thresh,
                                 memh_status, reg_status, 0, NONE)

(***************************************************************************)
(* Multi-domain registrar: ucp_mem_rereg_mds, ucp_mm.h                     *)
(***************************************************************************)
MaxMds == 3         \* number of memory domains of the context

\* MD indices (ucp_md_index_t)
Mds == 0..(MaxMds - 1)

\* "alloc_md == NULL"
NoMd == MaxMds

\* a uct_mem_h: the MD it belongs to and whether the register primitive of
\* the MD or the allocation produced it
RegKey(md) == [md |-> md, from |-> "reg"]

AllocKey(md) == [md |-> md, from |-> "alloc"]

\* the MDs of md_map, in increasing order
RECURSIVE MdSeq(_)
MdSeq(md_map) ==
    IF md_map = {} THEN << >>
    ELSE LET m == CHOOSE x \in md_map : \A y \in md_map : x <= y
         IN  <<m>> \o MdSeq(md_map \ {m})

\* ucs_popcount(md_map & UCS_MASK(md_index)) + 1: the slot of MD md_index
\* in the dense array of a handle registered on md_map (slots from 1)
MemhSlot(md_map, md_index) ==
    Cardinality({m \in md_map : m < md_index}) + 1

\* the array with key put in at slot, the keys from there on moving up
ArrayInsert(uct_memh, slot, key) ==
    SubSeq(uct_memh, 1, slot - 1) \o <<key>>
        \o SubSeq(uct_memh, slot, Len(uct_memh))

\* the array with the key at slot taken out and the gap closed
ArrayRemove(uct_memh, slot) ==
    SubSeq(uct_memh, 1, slot - 1)
        \o SubSeq(uct_memh, slot + 1, Len(uct_memh))

\* the state the registrar works on: the caller's array of keys, its map
\* of registered MDs, the number of registrations each MD holds for the
\* buffer, and the register / deregister calls made so far in this call
NoCalls == [m \in Mds |-> 0]

RegState(uct_memh, md_map, regs) ==
    [ uct_memh |-> uct_memh, md_map |-> md_map, regs |-> regs,
      reg_calls |-> NoCalls, dereg_calls |-> NoCalls, status |-> UCS_OK ]

\* the same, putting the new key behind the keys the array holds
rereg_add_at_end(s, md) ==
    [s EXCEPT !.uct_memh = Append(@, RegKey(md)),
              !.md_map = @ \cup {md},
              !.regs[md] = @ + 1,
              !.reg_calls[md] = @ + 1]

\* uct_md_mem_reg on MD md succeeded: its key goes to the MD's slot
rereg_add(s, md) ==
    [s EXCEPT !.uct_memh = ArrayInsert(@, MemhSlot(s.md_map, md), RegKey(md)),
              !.md_map = @ \cup {md},
              !.regs[md] = @ + 1,
              !.reg_calls[md] = @ + 1]

\* the same, registering the memory on alloc_md once more
rereg_add_alloc_registering(s, md, alloc_md_memh) ==
    [s EXCEPT !.uct_memh = ArrayInsert(@, MemhSlot(s.md_map, md), RegKey(md)),
              !.md_map = @ \cup {md},
              !.regs[md] = @ + 1,
              !.reg_calls[md] = @ + 1]

\* the key obtained from the allocation goes to the slot of alloc_md
rereg_add_alloc(s, md, alloc_md_memh) ==
    [s EXCEPT !.uct_memh = ArrayInsert(@, MemhSlot(s.md_map, md),
                                       alloc_md_memh),
              !.md_map = @ \cup {md}]

\* uct_md_mem_dereg of the key of MD md; its slot is closed
rereg_remove(s, md) ==
    [s EXCEPT !.uct_memh = ArrayRemove(@, MemhSlot(s.md_map, md)),
              !.md_map = @ \ {md},
              !.regs[md] = @ - 1,
              !.dereg_calls[md] = @ + 1]

\* the same, closing the slot without deregistering the key
rereg_undo_slot_only(s, md) ==
    [s EXCEPT !.uct_memh = ArrayRemove(@, MemhSlot(s.md_map, md)),
              !.md_map = @ \ {md}]

\* the slot of MD md, which this call filled, is given up again: a key
\* this call registered is deregistered, the key of the allocation stays
\* with the caller
rereg_undo(s, md) ==
    IF s.uct_memh[MemhSlot(s.md_map, md)].from = "reg"
    THEN rereg_remove(s, md)
    ELSE [s EXCEPT !.uct_memh = ArrayRemove(@, MemhSlot(s.md_map, md)),
                   !.md_map = @ \ {md}]

\* the rollback of what one call added, MD by MD
RECURSIVE rereg_undo_all(_, _)
rereg_undo_all(s, added) ==
    IF added = << >> THEN s
    ELSE rereg_undo_all(rereg_undo(s, Head(added)), Tail(added))

\* the removals of one call, MD by MD
RECURSIVE rereg_remove_all(_, _)
rereg_remove_all(s, to_remove) ==
    IF to_remove = << >> THEN s
    ELSE rereg_remove_all(rereg_remove(s, Head(to_remove)), Tail(to_remove))

\* the additions of one call, MD by MD; added is what this call has
\* added so far and bad are the MDs whose register primitive fails.
\* A failure undoes what this call added and ends the loop
RECURSIVE rereg_add_all(_, _, _, _, _, _)
rereg_add_all(s, to_add, added, alloc_md, alloc_md_memh, bad) ==
    IF to_add = << >> THEN s
    ELSE LET md == Head(to_add)
         IN  IF md = alloc_md
             THEN rereg_add_all(rereg_add_alloc(s, md, alloc_md_memh),
                                Tail(to_add), Append(added, md), alloc_md,
                                alloc_md_memh, bad)
             ELSE IF md \in bad
             THEN [rereg_undo_all(s, added)
                      EXCEPT !.status = UCS_ERR_IO_ERROR]
             ELSE rereg_add_all(rereg_add(s, md), Tail(to_add),
                                Append(added, md), alloc_md,
                                alloc_md_memh, bad)

\* the same, leaving registered the MDs that are no longer wanted
rereg_mds_add_only(reg_md_map, alloc_md, alloc_md_memh, uct_memh, md_map, regs, bad) ==
    rereg_add_all(RegState(uct_memh, md_map, regs),
                  MdSeq(reg_md_map \ md_map), << >>, alloc_md,
                  alloc_md_memh, bad)

\* ucp_mem_rereg_mds(context, reg_md_map, address, length, uct_flags,
\* alloc_md, mem_type, alloc_md_memh_p, uct_memh, md_map_p): the new MDs
\* are registered first; only when all of them are registered are the MDs
\* that are no longer wanted deregistered, so that a failure leaves what
\* was registered before the call as it was
ucp_mem_rereg_mds(reg_md_map, alloc_md, alloc_md_memh, uct_memh, md_map, regs, bad) ==
    LET s0 == RegState(uct_memh, md_map, regs)
        s1 == rereg_add_all(s0, MdSeq(reg_md_map \ md_map), << >>,
                            alloc_md, alloc_md_memh, bad)
    IN  IF s1.status # UCS_OK
        THEN s1
        ELSE rereg_remove_all(s1, MdSeq(md_map \ reg_md_map))

\* no call of the registrar has been made
NoRereg ==
    [ called |-> FALSE, status |-> UCS_OK, reg_md_map |-> {},
      alloc_md |-> NoMd, md_map |-> {}, uct_memh |-> << >>,
      regs |-> NoCalls, reg_calls |-> NoCalls, dereg_calls |-> NoCalls ]

\* a user memory handle on which nothing is registered yet; alloc_md is
\* the MD the memory was allocated with, which holds the allocation's key
\* (NoMd when the memory was not allocated by an MD)
NoUm(alloc_md) ==
    [ uct_memh |-> << >>, md_map |-> {},
      regs |-> [m \in Mds |-> IF m = alloc_md THEN 1 ELSE 0],
      alloc_md |-> alloc_md, last |-> NoRereg ]

(***************************************************************************)
(* Memory handle registry: ucp_memh_get_slow, ucp_memh_register,           *)
(* ucp_memh_put_slow, ucp_memh_invalidate, ucp_mm.h                        *)
(***************************************************************************)
\* memory handles the registration cache has memory for
MaxMemh == 2

\* references taken on one memory handle at a time
MaxRefs == 2

Memhs == 1..MaxMemh

\* the pages of the address space buffers are taken from
Pages == {0, 1}

\* address ranges [start, end) of whole pages
Ranges == {{0}, {1}, {0, 1}}

\* the MDs the buffers of the requests are registered on: the first two
MemhMds == {0, 1}

\* MDs whose deregistration with invalidation completes asynchronously
AsyncMds == {0}

\* a slot of the cache that holds no memory handle.  Of ucp_mem_t:
\* super (in_cache, pages, refcount and comp_list, the completion
\* callbacks queued on the region), md_map, inv_md_map and uct; regs is
\* the number of registrations each MD holds for the handle and async the
\* MDs on which a deregistration of the handle is still in flight
NoMemh ==
    [ in_cache |-> FALSE, pages |-> {}, refcount |-> 0, md_map |-> {},
      inv_md_map |-> {}, uct |-> << >>, regs |-> NoCalls, async |-> {},
      comp_list |-> 0 ]

\* the same, finding only an entry that contains the whole range
memh_lookup_containing(memhs, pages) ==
    {h \in Memhs : memhs[h].in_cache /\ pages \subseteq memhs[h].pages}

\* the cache entries that overlap the address range
memh_lookup(memhs, pages) ==
    {h \in Memhs : memhs[h].in_cache /\ memhs[h].pages \cap pages # {}}

\* the slots a new memory handle can be allocated in
memh_free(memhs) ==
    {h \in Memhs : ~memhs[h].in_cache /\ memhs[h].async = {}}

\* ucp_memh_register(context, memh, md_map, uct_flags, alloc_name): the
\* handle is registered on the MDs of md_map it is not registered on yet
ucp_memh_register(memh, md_map, bad) ==
    LET res == ucp_mem_rereg_mds(memh.md_map \cup md_map, NoMd,
                                 AllocKey(NoMd), memh.uct, memh.md_map,
                                 memh.regs, bad)
    IN  [ memh   |-> [memh EXCEPT !.uct = res.uct_memh,
                                  !.md_map = res.md_map,
                                  !.regs = res.regs],
          status |-> res.status ]

\* ucp_memh_get_slow(context, address, length, mem_type, reg_md_map,
\* uct_flags, alloc_name, memh_p).  An entry that overlaps the range is
\* reused: it is registered on the missing MDs, grows over the pages of
\* the range no entry covers (the pages other entries cover stay theirs)
\* and gets one more reference.  Without one a new handle is created and
\* registered on reg_md_map.  A failed registration leaves the cache as
\* it was.
ucp_memh_get_slow(memhs, pages, reg_md_map, bad) ==
    LET hits == memh_lookup(memhs, pages)
        free == memh_free(memhs)
    IN  IF hits # {}
        THEN LET h      == CHOOSE x \in hits : \A y \in hits : x <= y
                 others == UNION {memhs[g].pages : g \in hits \ {h}}
                 res    == ucp_memh_register(memhs[h], reg_md_map, bad)
             IN  IF res.status # UCS_OK
                 THEN [memhs |-> memhs, status |-> res.status, h |-> h]
                 ELSE [memhs |->
                         [memhs EXCEPT ![h] =
                            [res.memh EXCEPT
                               !.refcount = @ + 1,
                               !.pages = @ \cup (pages \ others)]],
                       status |-> UCS_OK, h |-> h]
        ELSE IF free = {}
        THEN [memhs |-> memhs, status |-> UCS_ERR_NO_MEMORY, h |-> 0]
        ELSE LET h   == CHOOSE x \in free : \A y \in free : x <= y
                 res == ucp_memh_register(NoMemh, reg_md_map, bad)
             IN  IF res.status # UCS_OK
                 THEN [memhs |-> memhs, status |-> res.status, h |-> 0]
                 ELSE [memhs |->
                         [memhs EXCEPT ![h] =
                            [res.memh EXCEPT !.in_cache = TRUE,
                                             !.pages = pages,
                                             !.refcount = 1]],
                       status |-> UCS_OK, h |-> h]

\* the handle is deregistered from the MDs of md_map; on those of
\* AsyncMds the deregistration stays in flight
memh_dereg(memh, md_map) ==
    LET res == ucp_mem_rereg_mds(memh.md_map \ md_map, NoMd,
                                 AllocKey(NoMd), memh.uct, memh.md_map,
                                 memh.regs, {})
    IN  [memh EXCEPT !.uct = res.uct_memh,
                     !.md_map = res.md_map,
                     !.regs = res.regs,
                     !.inv_md_map = @ \ md_map,
                     !.async = @ \cup (md_map \cap AsyncMds)]

\* the same, not waiting for the references and the deregistrations
memh_comp_early(memh) ==
    [memh |-> [memh EXCEPT !.comp_list = 0], comp_calls |-> memh.comp_list]

\* the completion callbacks queued on the handle are invoked, once each,
\* when nothing refers to it and no deregistration is in flight
memh_comp(memh) ==
    IF memh.refcount = 0 /\ memh.async = {}
    THEN [memh |-> [memh EXCEPT !.comp_list = 0],
          comp_calls |-> memh.comp_list]
    ELSE [memh |-> memh, comp_calls |-> 0]

\* ucp_memh_put_slow(context, memh): a reference is given back.  The
\* handle stays in the cache, unless an invalidation was requested and
\* this was the last reference: then the MDs of inv_md_map are
\* deregistered, and a handle left without a registration is destroyed
ucp_memh_put_slow(memh) ==
    LET m1 == [memh EXCEPT !.refcount = @ - 1]
    IN  IF m1.refcount > 0 \/ (m1.inv_md_map = {} /\ m1.comp_list = 0)
        THEN [memh |-> m1, comp_calls |-> 0]
        ELSE LET m2 == memh_dereg(m1, m1.inv_md_map)
             IN  memh_comp([m2 EXCEPT
                              !.in_cache = m2.md_map # {},
                              !.pages = IF m2.md_map # {} THEN @ ELSE {}])

\* the same, with every MD of the argument put in inv_md_map
memh_invalidate_any_md(memh, inv_md_map) ==
    ucp_memh_put_slow([memh EXCEPT !.inv_md_map = @ \cup inv_md_map,
                                   !.comp_list = @ + 1])

\* ucp_memh_invalidate(context, memh, cb, arg, inv_md_map): the MDs of
\* inv_md_map the handle is registered on are marked for invalidation, cb
\* is queued on the handle and the caller's reference is given back
ucp_memh_invalidate(memh, inv_md_map) ==
    ucp_memh_put_slow(
       [memh EXCEPT !.inv_md_map = @ \cup (inv_md_map \cap memh.md_map),
                    !.comp_list = @ + 1])

\* the same, for any entry of the cache
memh_evictable_in_use(memh) == memh.in_cache

\* an entry can be evicted from the cache when nothing refers to it
memh_evictable(memh) == memh.in_cache /\ memh.refcount = 0

\* no operation was made on the cache
NoMhOp ==
    [ op |-> "none", status |-> UCS_OK, h |-> 0, overlap |-> FALSE,
      inv_md_map |-> {}, comp_calls |-> 0 ]

\* the empty cache
NoMh == [ memh |-> [h \in Memhs |-> NoMemh], last |-> NoMhOp ]

(***************************************************************************)
(* Packed remote keys, ucp_mm.h                                            *)
(***************************************************************************)
\* sizeof(ucp_md_map_t), in bytes: the MD bitmap is a 64-bit word
SizeofMdMap == 8

\* MD indices that occur in the bitmaps of the packed keys considered:
\* the lowest ones, one in the second byte and the highest
RkeyMdBits == {0, 1, 9, 63}

\* values of ucs_memory_type_t carried in the header
RkeyMemTypes == 0..3

\* per-MD key material, one byte per MD of the bitmap
RkeyMaterial == {17, 255}

RECURSIVE Pow2(_)
Pow2(n) == IF n = 0 THEN 1 ELSE 2 * Pow2(n - 1)

\* bits i..7 of byte k (from 0) of the in-memory image of the bitmap md_map
RECURSIVE MdMapBits(_, _, _)
MdMapBits(md_map, k, i) ==
    IF i = 8 THEN 0
    ELSE (IF 8 * k + i \in md_map THEN Pow2(i) ELSE 0)
             + MdMapBits(md_map, k, i + 1)

\* byte k (from 0) of the in-memory image of the bitmap md_map
MdMapByte(md_map, k) == MdMapBits(md_map, k, 0)

\* the bitmap whose in-memory image is the byte sequence bytes
MdMapOfBytes(bytes) ==
    {b \in 0..(8 * Len(bytes) - 1) :
        (bytes[(b \div 8) + 1] \div Pow2(b % 8)) % 2 = 1}

\* the packed remote key of a region of type mem_type registered on the
\* MDs of md_map, each MD's key material being the byte key:
\* [md_map][mem_type][key material], offsets counted from 0
rkey_pack(md_map, mem_type, key) ==
    [k \in 1..SizeofMdMap |-> MdMapByte(md_map, k - 1)]
        \o <<mem_type>>
        \o [k \in 1..Cardinality(md_map) |-> key]

\* the memory read *(const T*)(rkey_buffer + offset) of size bytes: the
\* bytes read and their offsets
MemRead(rkey_buffer, offset, size) ==
    [ bytes |-> [k \in 1..size |-> rkey_buffer[offset + k]],
      reads |-> offset..(offset + size - 1) ]

\* the same, reading the byte at (uint8_t*)rkey_buffer + 1
rkey_packed_mem_type_byte_offset(rkey_buffer) ==
    LET rd == MemRead(rkey_buffer, 1, 1)
    IN  [value |-> rd.bytes[1], reads |-> rd.reads]

\* ucp_rkey_packed_md_map(rkey_buffer): the value returned and the offsets
\* of the bytes read
ucp_rkey_packed_md_map(rkey_buffer) ==
    LET rd == MemRead(rkey_buffer, 0, SizeofMdMap)
    IN  [value |-> MdMapOfBytes(rd.bytes), reads |-> rd.reads]

\* ucp_rkey_packed_mem_type(rkey_buffer): the byte at
\* (const ucp_md_map_t*)rkey_buffer + 1, as a ucs_memory_type_t
ucp_rkey_packed_mem_type(rkey_buffer) ==
    LET rd == MemRead(rkey_buffer, 1 * SizeofMdMap, 1)
    IN  [value |-> rd.bytes[1], reads |-> rd.reads]

\* no remote key is being unpacked
NoRkey ==
    [ buffer |-> << >>, packed_md_map |-> {}, packed_mem_type |-> 0,
      unpacked |-> FALSE, md_map |-> {}, mem_type |-> 0, reads |-> {} ]

\* the registration layer before anything was registered or packed
MmInit ==
    /\ rk = NoRkey
    /\ um = NoUm(NoMd)
    /\ mh = NoMh

(***************************************************************************)
(* The state machine                                                       *)
(***************************************************************************)
\* statuses the transport can answer to an inline (short) put
ShortStatuses == {UCS_OK, UCS_ERR_NO_RESOURCE} \cup HwErrors

\* outcomes of UCP_RKEY_RESOLVE, which only the legacy path calls
ResolveStatuses(c) ==
    IF c.proto_enable THEN {UCS_OK} ELSE {UCS_OK, UCS_ERR_UNREACHABLE}

\* outcomes of ucp_request_send_reg_lane, which only the legacy path calls
\* (ucp_send_request_set_user_memh succeeds: no caller passes a memory
\* handle in the parameters)
RegStatuses(c) ==
    IF c.proto_enable THEN {UCS_OK} ELSE {UCS_OK, UCS_ERR_IO_ERROR}

\* configurations a context / endpoint can be constructed with.  A context
\* without the RMA feature is considered in a build that checks parameters
\* only: what UCP_CONTEXT_CHECK_FEATURE_FLAGS does in a build that does not
\* is decided outside rma_send.c
Configs ==
    { c \in [ features_rma     : BOOLEAN,  \* UCP_FEATURE_RMA given to ucp_init
              proto_enable     : BOOLEAN,  \* context->config.ext.proto_enable
              params_check     : BOOLEAN,  \* ENABLE_PARAMS_CHECK of the build
              max_put_short    : {1},      \* short threshold of the remote key
              put_zcopy_thresh : {1},      \* rma_config->put_zcopy_thresh
              get_zcopy_thresh : {2} ] :   \* rma_config->get_zcopy_thresh
        c.features_rma \/ c.params_check }

NoCall ==
    [ op |-> NONE, count |-> 0, buffer_null |-> FALSE, mask |-> {},
      fence |-> FALSE, ret |-> NONE, hw_short |-> 0, hw_status |-> NONE,
      slot |-> 0, cs_enter |-> 0, cs_exit |-> 0 ]

(***************************************************************************)
(* Polling a completion queue: uct_ib_poll_cq, ib_device.h                 *)
(***************************************************************************)
MaxCqe == 4         \* entries of the completion queue

UCS_ERR_NO_PROGRESS == "UCS_ERR_NO_PROGRESS"

\* what ibv_poll_cq(cq, num_entries, wcs) can return with queued
\* completions in the queue: the number of entries it took, or a negative
\* value on failure
ibv_poll_cq(queued, num_entries) == {Min(queued, num_entries), -1, -2}

\* the same, storing the poll result in *count whenever it is not negative
poll_cq_store_zero(count, ret) ==
    IF ret < 0
    THEN [status |-> NONE, count |-> count, fatal |-> TRUE]
    ELSE [status |-> IF ret = 0 THEN UCS_ERR_NO_PROGRESS ELSE UCS_OK,
          count |-> ret, fatal |-> FALSE]

\* uct_ib_poll_cq(cq, count, wcs) when ibv_poll_cq returned ret: the status
\* returned and *count afterwards, or ucs_fatal (the process aborts and
\* nothing is returned)
uct_ib_poll_cq(count, ret) ==
    IF ret <= 0
    THEN IF ret = 0
         THEN [status |-> UCS_ERR_NO_PROGRESS, count |-> count,
               fatal |-> FALSE]
         ELSE [status |-> NONE, count |-> count, fatal |-> TRUE]
    ELSE [status |-> UCS_OK, count |-> ret, fatal |-> FALSE]

\* an empty queue that was never polled
NoCq ==
    [ queued |-> 0, called |-> FALSE, count_in |-> 0, ret |-> 0,
      status |-> NONE, count_out |-> 0, fatal |-> FALSE ]

(***************************************************************************)
(* The test watchdog: test_helpers.cc                                      *)
(***************************************************************************)
MaxCalls == 2       \* calls of watchdog_set / watchdog_signal before
                    \*   watchdog_stop

\* test_watchdog_state_t
WATCHDOG_STOP        == "WATCHDOG_STOP"
WATCHDOG_RUN         == "WATCHDOG_RUN"
WATCHDOG_TEST        == "WATCHDOG_TEST"
WATCHDOG_TIMEOUT_SET == "WATCHDOG_TIMEOUT_SET"
WATCHDOG_DEFAULT_SET == "WATCHDOG_DEFAULT_SET"

\* the states a test passes to watchdog_set
SetStates ==
    {WATCHDOG_RUN, WATCHDOG_TEST, WATCHDOG_TIMEOUT_SET, WATCHDOG_DEFAULT_SET}

\* watchdog.timeout: the global watchdog_timeout or a value of the test
Timeouts == {"watchdog_timeout", "new_timeout"}

SIGABRT == "SIGABRT"
SIGTERM == "SIGTERM"

\* the errno value pthread_cond_timedwait returns when the time is up
ETIMEDOUT == 110

\* the two threads that share the barrier
WATCHED == "watched"
WATCHDOG == "watchdog"

\* the watchdog before watchdog_start.  main and dog are the positions of
\* the watched thread and of the watchdog thread, op the function the
\* watched thread is in; owner and depth are the recursive mutex, woken the
\* condition variable (the timed wait of the watchdog has been ended),
\* arrived and go the barrier; the counters and flags from calls on are
\* ghosts (main_bars and dog_bars count the calls of pthread_barrier_wait)
NoWd ==
    [ main |-> "idle", op |-> NONE, new_state |-> NONE, new_timeout |-> NONE,
      dog |-> NONE, ret |-> 0,
      owner |-> NONE, depth |-> 0, woken |-> FALSE,
      arrived |-> {}, go |-> {},
      state |-> NONE, timeout |-> NONE, kill_signal |-> NONE,
      calls |-> 0, signals |-> 0, wakes |-> 0,
      main_bars |-> 0, dog_bars |-> 0,
      lost |-> FALSE, spurious |-> FALSE, timed_out |-> FALSE ]

\* pthread_barrier_wait(&watchdog.barrier) called by thread t: the first
\* thread to arrive waits, the second lets both go
pthread_barrier_wait(w, t) ==
    IF w.arrived = {}
    THEN [w EXCEPT !.arrived = {t}]
    ELSE [w EXCEPT !.arrived = {}, !.go = w.arrived \cup {t}]

\* pthread_mutex_lock(&watchdog.mutex) can return for thread t: the mutex
\* is free, or t holds it already (PTHREAD_MUTEX_RECURSIVE)
mutex_free_for(w, t) == w.owner \in {NONE, t}

\* pthread_mutex_lock / pthread_mutex_unlock by thread t
pthread_mutex_lock(w, t) == [w EXCEPT !.owner = t, !.depth = @ + 1]

pthread_mutex_unlock(w) ==
    [w EXCEPT !.depth = @ - 1,
              !.owner = IF w.depth = 1 THEN NONE ELSE @]

\* pthread_cond_signal(&watchdog.cv): ends the timed wait of the watchdog
\* thread if it is in one; otherwise the signal has no effect
pthread_cond_signal(w) ==
    IF w.dog = "wait"
    THEN [w EXCEPT !.woken = TRUE, !.signals = @ + 1]
    ELSE [w EXCEPT !.lost = TRUE, !.signals = @ + 1]

\* switch (watchdog.state) of watchdog_func
watchdog_switch(w) ==
    IF w.state = WATCHDOG_TEST
    THEN [w EXCEPT !.kill_signal = SIGTERM, !.state = WATCHDOG_DEFAULT_SET]
    ELSE IF w.state = WATCHDOG_STOP
    THEN [w EXCEPT !.ret = 1]
    ELSE IF w.state = WATCHDOG_TIMEOUT_SET
    THEN [w EXCEPT !.state = WATCHDOG_DEFAULT_SET]
    ELSE IF w.state = WATCHDOG_DEFAULT_SET
    THEN [w EXCEPT !.timeout = "watchdog_timeout", !.state = WATCHDOG_RUN,
                   !.kill_signal = SIGABRT]
    ELSE w

\* no nbi wrapper has returned yet
NoNbi == [ ret |-> NONE, slot |-> 0, free_calls |-> 0 ]

\* nothing has been polled, nor is the watchdog started
AuxInit ==
    /\ nbi = NoNbi
    /\ cq = NoCq
    /\ wd = NoWd

\* a worker right after its construction, on a context configured as c
InitRma(c) ==
    /\ AuxInit
    /\ cfg = c
    /\ req = [r \in Reqs |-> FreeReq]
    /\ pending = << >>
    /\ inflight = [r \in Reqs |-> 0]
    /\ sending = 0
    /\ call = NoCall
    /\ hist = [r \in Reqs |-> NoHist]
    /\ uaf = FALSE

\* ... with nothing registered or packed yet
InitWith(c) == InitRma(c) /\ MmInit

\* a build that checks parameters
Init == \E c \in Configs : c.params_check /\ InitWith(c)

\* any build
InitApi == \E c \in Configs : InitWith(c)

\* nothing refers to slot r any more: the hardware owes it no completion
\* and it is neither in the pending queue nor in a send loop
Quiet(r) ==
    /\ inflight[r] = 0
    /\ sending # r
    /\ \A i \in DOMAIN pending : pending[i] # r

\* a request returned to the mpool is dead memory: its contents are kept
\* in the state in which it was released and forgotten by the next step,
\* unless something still refers to the slot
Recycle ==
    [r \in Reqs |-> IF ~req[r].alloc /\ Quiet(r) THEN FreeReq ELSE req[r]]

RecycleHist ==
    [r \in Reqs |-> IF ~req[r].alloc /\ Quiet(r) THEN NoHist
                    ELSE [hist[r] EXCEPT !.prev_length = 0, !.frag_length = 0,
                                         !.status = NONE]]

\* the effect of an API call that got as far as res
ApplyCall(op, count, buffer_null, mask, fence, res) ==
    /\ call' = [ op |-> op, count |-> count, buffer_null |-> buffer_null,
                 mask |-> mask, fence |-> fence, ret |-> res.ret,
                 hw_short |-> res.hw_short, hw_status |-> res.hw_status,
                 slot |-> res.slot, cs_enter |-> res.cs_enter,
                 cs_exit |-> res.cs_exit ]
    /\ IF res.slot # 0
       THEN /\ req' = [Recycle EXCEPT ![res.slot] = res.req]
            /\ hist' = [RecycleHist EXCEPT ![res.slot] =
                           [NoHist EXCEPT !.init_length = count]]
            /\ sending' = IF res.ret = NONE THEN res.slot ELSE 0
       ELSE /\ req' = Recycle
            /\ hist' = RecycleHist
            /\ UNCHANGED sending
    /\ UNCHANGED <<cfg, pending, inflight, uaf, mmvars, auxvars>>

\* the owner thread calls ucp_put_nbx with a buffer, an op_attr_mask and
\* an endpoint fence state out of the given sets
PutNbxWith(nulls, masks, fences) ==
    /\ call = NoCall
    /\ \E count \in Lengths, buffer_null \in nulls, mask \in masks,
          fence \in fences :
         \E res \in { ucp_put_nbx(cfg, req, count, buffer_null, mask, fence,
                                  hw_status, resolve_status, UCS_OK,
                                  reg_status) :
                          hw_status \in ShortStatuses,
                          resolve_status \in ResolveStatuses(cfg),
                          reg_status \in RegStatuses(cfg) } :
           ApplyCall("PUT", count, buffer_null, mask, fence, res)

\* the owner thread calls ucp_get_nbx with a buffer and an op_attr_mask
\* out of the given sets
GetNbxWith(nulls, masks) ==
    /\ call = NoCall
    /\ \E count \in Lengths, buffer_null \in nulls, mask \in masks :
         \E res \in { ucp_get_nbx(cfg, req, count, buffer_null, mask,
                                  resolve_status, UCS_OK, reg_status) :
                          resolve_status \in ResolveStatuses(cfg),
                          reg_status \in RegStatuses(cfg) } :
           ApplyCall("GET", count, buffer_null, mask, FALSE, res)

\* a plain call: a buffer, default parameters, no fence pending
PutNbx == PutNbxWith({FALSE}, {{}}, {FALSE})

GetNbx == GetNbxWith({FALSE}, {{}})

\* a call with any buffer, any parameters and any fence state
PutNbxAny == PutNbxWith(BOOLEAN, AttrMasks, BOOLEAN)

GetNbxAny == GetNbxWith(BOOLEAN, AttrMasks)

(***************************************************************************)
(* Fragment attempts (the progress functions of rma_basic.c)               *)
(***************************************************************************)
\* the zero-copy threshold of the request's direction
zcopy_thresh(c, op) ==
    IF op = "GET" THEN c.get_zcopy_thresh ELSE c.put_zcopy_thresh

\* the kind of hardware operation the progress function picks for what is
\* left of the request
FragKind(c, q) ==
    IF q.length < zcopy_thresh(c, q.op) THEN "bcopy" ELSE "zcopy"

\* what the transport can answer: a buffered copy is done when the call
\* returns, a zero-copy operation may also stay in progress
FragStatuses(kind) ==
    IF kind = "zcopy"
    THEN {UCS_OK, UCS_INPROGRESS, UCS_ERR_NO_RESOURCE} \cup HwErrors
    ELSE {UCS_OK, UCS_ERR_NO_RESOURCE} \cup HwErrors

\* a fragment's final status (OK or a hardware error) enters the history;
\* "in progress" and "no resource" are not final
Observe(h, status) ==
    IF status \in {UCS_OK} \cup HwErrors
    THEN [h EXCEPT !.first_bad = IF @ = UCS_OK THEN status ELSE @]
    ELSE h

\* the bookkeeping of one fragment attempt on request r that the transport
\* answered with status, after which the request is res.req
Attempt(r, frag_length, status, res) ==
    /\ req' = [Recycle EXCEPT ![r] = res.req]
    /\ inflight' = IF status = UCS_INPROGRESS
                   THEN [inflight EXCEPT ![r] = @ + 1] ELSE inflight
    /\ hist' = [RecycleHist EXCEPT
           ![r] = [Observe(hist[r], status) EXCEPT
                      !.zero_count = IF req[r].length > 0 /\ res.req.length = 0
                                     THEN @ + 1 ELSE @,
                      !.prev_length = req[r].length,
                      !.frag_length = frag_length,
                      !.status      = status]]
    /\ uaf' = (uaf \/ ~req[r].alloc)

\* ucp_request_try_send inside ucp_request_send: one call of the progress
\* function from the send loop of the running API call; the loop ends when
\* the function returns OK, or NO_RESOURCE (the request goes to the pending
\* queue), and the call then returns the request
TrySend ==
    /\ sending # 0
    /\ LET r == sending
           q == req[r]
       IN  \E frag_length \in 1..Min(q.length, MaxFrag),
              status \in FragStatuses(FragKind(cfg, q)) :
             LET res == ucp_rma_request_advance(q, frag_length, status)
             IN  /\ Attempt(r, frag_length, status, res)
                 /\ IF res.ret = UCS_INPROGRESS
                    THEN UNCHANGED <<sending, call, pending>>
                    ELSE /\ sending' = 0
                         /\ call' = [call EXCEPT !.ret = PTR,
                                                 !.cs_exit = @ + 1]
                         /\ pending' = IF res.ret = UCS_ERR_NO_RESOURCE
                                       THEN Append(pending, r) ELSE pending
    /\ UNCHANGED <<cfg, mmvars, auxvars>>

\* the API call has returned and the owner thread goes on: it calls the
\* API again or drives the worker's progress
Return ==
    /\ call # NoCall
    /\ call.ret # NONE
    /\ call' = NoCall
    /\ req' = Recycle
    /\ hist' = RecycleHist
    /\ UNCHANGED <<cfg, pending, inflight, sending, uaf, mmvars, auxvars>>

\* uct_worker_progress dispatching the pending queue: the progress function
\* of the head request is called; OK removes the request from the queue,
\* INPROGRESS and NO_RESOURCE keep it there
PendingDispatchWith(statuses) ==
    /\ call = NoCall
    /\ pending # << >>
    /\ LET r == Head(pending)
           q == req[r]
       IN  \E frag_length \in 1..Min(q.length, MaxFrag),
              status \in FragStatuses(FragKind(cfg, q)) \cap statuses :
             LET res == ucp_rma_request_advance(q, frag_length, status)
             IN  /\ Attempt(r, frag_length, status, res)
                 /\ pending' = IF res.ret = UCS_OK
                               THEN Tail(pending) ELSE pending
    /\ UNCHANGED <<cfg, sending, call, mmvars, auxvars>>

\* a dispatch which the transport may answer with any status
PendingDispatch ==
    PendingDispatchWith({UCS_OK, UCS_INPROGRESS, UCS_ERR_NO_RESOURCE}
                            \cup HwErrors)

\* a dispatch for which the transport has send resources
PendingDispatchResources ==
    PendingDispatchWith({UCS_OK, UCS_INPROGRESS} \cup HwErrors)

\* uct_worker_progress polling a completion of a zero-copy operation of
\* request r, which the transport reports with uct_invoke_completion
HwCompletionOf(r) ==
    /\ call = NoCall
    /\ \E status \in {UCS_OK} \cup HwErrors :
         /\ inflight[r] > 0
         /\ req' = [Recycle EXCEPT
                        ![r] = uct_invoke_completion(req[r], status)]
         /\ inflight' = [inflight EXCEPT ![r] = @ - 1]
         /\ hist' = [RecycleHist EXCEPT
                ![r] = [Observe(RecycleHist[r], status) EXCEPT
                           !.early_cb = \/ @
                                        \/ /\ req[r].comp_count = 1
                                           /\ req[r].length # req[r].dt_offset]]
         /\ uaf' = (uaf \/ ~req[r].alloc)
    /\ UNCHANGED <<cfg, pending, sending, call, mmvars, auxvars>>

HwCompletion == \E r \in Reqs : HwCompletionOf(r)

\* the protocol layer finishes a request it was handed by
\* ucp_proto_request_send_op and completes it with the final status
ProtoComplete ==
    /\ call = NoCall
    /\ \E r \in Reqs, status \in {UCS_OK} \cup HwErrors :
         /\ req[r].alloc /\ req[r].path = "proto" /\ req[r].sent
         /\ req' = [Recycle EXCEPT
                        ![r] = ucp_request_complete_send(
                                   [req[r] EXCEPT !.comp_status = status],
                                   status)]
         /\ hist' = [RecycleHist EXCEPT
                        ![r] = Observe(RecycleHist[r], status)]
    /\ UNCHANGED <<cfg, pending, inflight, sending, call, uaf, mmvars, auxvars>>

Next ==
    \/ PutNbx
    \/ GetNbx
    \/ TrySend
    \/ Return
    \/ PendingDispatch
    \/ HwCompletion
    \/ ProtoComplete

\* the request engine: plain calls, and the owner thread driving progress
Spec == Init /\ [][Next]_vars

NextApi ==
    \/ PutNbxAny
    \/ GetNbxAny
    \/ TrySend
    \/ Return

\* the request engine under the scheduling the worker is used with: the
\* send loop of a call runs to its end and the call returns, the owner
\* thread keeps calling the worker's progress, the transport completes
\* every operation it accepted, and it does not answer NO_RESOURCE for ever
Fairness ==
    /\ WF_vars(TrySend)
    /\ WF_vars(Return)
    /\ SF_vars(PendingDispatchResources)
    /\ \A r \in Reqs : SF_vars(HwCompletionOf(r))

SpecLive == Init /\ [][Next]_vars /\ Fairness

\* the entry points: every combination of call parameters, with the owner
\* thread issuing calls only
SpecApi == InitApi /\ [][NextApi]_vars

(***************************************************************************)
(* Packing and unpacking remote keys                                       *)
(***************************************************************************)
\* the RMA engine stays idle while the registration layer is exercised
RmaIdle ==
    \E c \in Configs :
       c.params_check /\ c.proto_enable /\ c.features_rma /\ InitRma(c)

\* a peer packs the remote key of one of its regions and the blob arrives
RkeyPack ==
    /\ rk = NoRkey
    /\ \E md_map \in SUBSET RkeyMdBits, mem_type \in RkeyMemTypes,
          key \in RkeyMaterial :
         rk' = [NoRkey EXCEPT !.buffer = rkey_pack(md_map, mem_type, key),
                              !.packed_md_map = md_map,
                              !.packed_mem_type = mem_type]
    /\ UNCHANGED <<rmavars, auxvars, um, mh>>

\* the header of the blob is unpacked with ucp_rkey_packed_md_map and
\* ucp_rkey_packed_mem_type
RkeyUnpack ==
    /\ rk.buffer # << >>
    /\ ~rk.unpacked
    /\ LET m == ucp_rkey_packed_md_map(rk.buffer)
           t == ucp_rkey_packed_mem_type(rk.buffer)
       IN  rk' = [rk EXCEPT !.unpacked = TRUE,
                            !.md_map   = m.value,
                            !.mem_type = t.value,
                            !.reads    = m.reads \cup t.reads]
    /\ UNCHANGED <<rmavars, auxvars, um, mh>>

NextRkey ==
    \/ RkeyPack
    \/ RkeyUnpack

InitRkey ==
    /\ RmaIdle
    /\ MmInit

\* remote keys arriving and being unpacked
SpecRkey == InitRkey /\ [][NextRkey]_vars

(***************************************************************************)
(* Re-registration of a user memory handle                                 *)
(***************************************************************************)
\* the memory was allocated by one of the MDs, or by none of them
InitRereg ==
    /\ RmaIdle
    /\ rk = NoRkey
    /\ mh = NoMh
    /\ \E alloc_md \in Mds \cup {NoMd} : um = NoUm(alloc_md)

\* a call ucp_mem_rereg_mds(context, reg_md_map, ..., alloc_md, ...,
\* &alloc_md_memh, uct_memh, &md_map) on the user memory handle, during
\* which the register primitive of the MDs of bad fails; the caller gives
\* up the key of the allocation once the call has deregistered it
MemRereg ==
    /\ \E reg_md_map \in SUBSET Mds, bad \in {{}} \cup {{m} : m \in Mds} :
         LET res == ucp_mem_rereg_mds(reg_md_map, um.alloc_md,
                                      AllocKey(um.alloc_md), um.uct_memh,
                                      um.md_map, um.regs, bad)
         IN  um' = [ uct_memh |-> res.uct_memh,
                     md_map   |-> res.md_map,
                     regs     |-> res.regs,
                     alloc_md |-> IF um.alloc_md \in um.md_map \ res.md_map
                                  THEN NoMd ELSE um.alloc_md,
                     last     |-> [ called      |-> TRUE,
                                    status      |-> res.status,
                                    reg_md_map  |-> reg_md_map,
                                    alloc_md    |-> um.alloc_md,
                                    md_map      |-> um.md_map,
                                    uct_memh    |-> um.uct_memh,
                                    regs        |-> um.regs,
                                    reg_calls   |-> res.reg_calls,
                                    dereg_calls |-> res.dereg_calls ] ]
    /\ UNCHANGED <<rmavars, auxvars, rk, mh>>

NextRereg == MemRereg

\* a user memory handle being re-registered again and again
SpecRereg == InitRereg /\ [][NextRereg]_vars

(***************************************************************************)
(* The registration cache                                                  *)
(***************************************************************************)
InitMemh ==
    /\ RmaIdle
    /\ MmInit

\* what the last operation was: the handle it was about, whether the
\* range asked for overlapped an entry of the cache, the MDs asked to be
\* invalidated, and how many completion callbacks it invoked
MhOp(op, status, h, overlap, inv_md_map, comp_calls) ==
    [ op |-> op, status |-> status, h |-> h, overlap |-> overlap,
      inv_md_map |-> inv_md_map, comp_calls |-> comp_calls ]

\* a request takes a memory handle for a buffer: ucp_memh_get_slow
MemhGet ==
    /\ \E pages \in Ranges, reg_md_map \in SUBSET MemhMds,
          bad \in {{}} \cup {{m} : m \in MemhMds} :
         /\ \A h \in memh_lookup(mh.memh, pages) :
               mh.memh[h].refcount < MaxRefs
         /\ LET res == ucp_memh_get_slow(mh.memh, pages, reg_md_map, bad)
            IN  mh' = [ memh |-> res.memhs,
                        last |-> MhOp("get", res.status, res.h,
                                      \E g \in Memhs :
                                         /\ mh.memh[g].in_cache
                                         /\ mh.memh[g].pages \cap pages # {},
                                      {}, 0) ]
    /\ UNCHANGED <<rmavars, auxvars, rk, um>>

\* a request gives its memory handle back: ucp_memh_put_slow
MemhPut ==
    /\ \E h \in Memhs :
         /\ mh.memh[h].refcount > 0
         /\ LET res == ucp_memh_put_slow(mh.memh[h])
            IN  mh' = [ memh |-> [mh.memh EXCEPT ![h] = res.memh],
                        last |-> MhOp("put", UCS_OK, h, FALSE, {},
                                      res.comp_calls) ]
    /\ UNCHANGED <<rmavars, auxvars, rk, um>>

\* a holder of the memory handle invalidates it: ucp_memh_invalidate
MemhInvalidate ==
    /\ \E h \in Memhs, inv_md_map \in SUBSET MemhMds :
         /\ mh.memh[h].refcount > 0
         /\ mh.memh[h].comp_list < MaxRefs
         /\ LET res == ucp_memh_invalidate(mh.memh[h], inv_md_map)
            IN  mh' = [ memh |-> [mh.memh EXCEPT ![h] = res.memh],
                        last |-> MhOp("invalidate", UCS_OK, h, FALSE,
                                      inv_md_map, res.comp_calls) ]
    /\ UNCHANGED <<rmavars, auxvars, rk, um>>

\* an MD finishes a deregistration that was in flight
MemhDeregComplete ==
    /\ \E h \in Memhs, md \in Mds :
         /\ md \in mh.memh[h].async
         /\ LET res == memh_comp([mh.memh[h] EXCEPT !.async = @ \ {md}])
            IN  mh' = [ memh |-> [mh.memh EXCEPT ![h] = res.memh],
                        last |-> MhOp("complete", UCS_OK, h, FALSE, {},
                                      res.comp_calls) ]
    /\ UNCHANGED <<rmavars, auxvars, rk, um>>

\* the cache evicts an entry and deregisters it from all its MDs
MemhEvict ==
    /\ \E h \in Memhs :
         /\ memh_evictable(mh.memh[h])
         /\ mh' = [ memh |-> [mh.memh EXCEPT ![h] =
                       [memh_dereg(mh.memh[h], mh.memh[h].md_map) EXCEPT
                          !.in_cache = FALSE, !.pages = {}]],
                    last |-> MhOp("evict", UCS_OK, h, FALSE, {}, 0) ]
    /\ UNCHANGED <<rmavars, auxvars, rk, um>>

NextMemh ==
    \/ MemhGet
    \/ MemhPut
    \/ MemhInvalidate
    \/ MemhDeregComplete
    \/ MemhEvict

\* requests taking, giving back and invalidating cached memory handles
SpecMemh == InitMemh /\ [][NextMemh]_vars

\* the registration cache holds what its operations can leave in it
MemhTypeOK ==
    \A h \in Memhs :
       /\ mh.memh[h].refcount \in 0..MaxRefs
       /\ mh.memh[h].pages \subseteq Pages
       /\ mh.memh[h].md_map \subseteq Mds
       /\ mh.memh[h].in_cache \/ mh.memh[h].refcount = 0

TypeOK ==
    /\ cfg \in Configs
    /\ sending \in 0..MaxReqs
    /\ \A r \in Reqs : req[r].length \in 0..MaxLen /\ inflight[r] \in 0..MaxLen

(***************************************************************************)
(* Properties of the request engine (specification Spec)                   *)
(***************************************************************************)
\* requests of the legacy path, whose engine is rma_send.c
Legacy(r) == req[r].path = "rma"

\* the running or just returned call went through the inline fast path
InlineDone ==
    /\ call.op = "PUT"
    /\ call.hw_short = 1
    /\ call.ret = call.hw_status

\* C1: over every interleaving of fragment attempts and hardware
\* completions the user callback of a request is invoked at most once,
\* a request that was handed to the send path and has not been completed
\* is still referred to by the send loop, the pending queue or an
\* outstanding hardware operation (so its callback is still to come, and
\* comes once), and a call that completed through the inline fast path has
\* no request and hence no callback.
C1_CallbackExactlyOnce ==
    /\ \A r \in Reqs :
         /\ req[r].cb_count <= 1
         /\ req[r].put_count <= 1
         /\ req[r].completed <=> (req[r].cb_count = 1)
         /\ (Legacy(r) /\ req[r].alloc /\ req[r].sent) => ~Quiet(r)
         /\ (Legacy(r) /\ req[r].sent /\ Quiet(r)) => req[r].cb_count = 1
    /\ InlineDone => call.slot = 0

\* a request whose completion callback ran between two of its fragments
\* has got its user callback
C1_Witness ==
    \E r \in Reqs :
        /\ Legacy(r) /\ hist[r].early_cb
        /\ req[r].cb_count = 1
        /\ hist[r].init_length > 1

C3_NoUseAfterRelease ==
    /\ ~uaf
    /\ \A r \in Reqs :
         (hist[r].early_cb /\ req[r].length # req[r].dt_offset)
             => (req[r].alloc /\ req[r].cb_count = 0)

\* partial send; no resources; progress; the hardware completion of the
\* earlier fragment has run: the request waits in the pending queue, alive
C3_Witness ==
    \E r \in Reqs :
        /\ hist[r].early_cb
        /\ req[r].alloc /\ req[r].length > 0
        /\ req[r].comp_count = 0
        /\ pending # << >> /\ Head(pending) = r

\* the step leaves the remaining length of live request r where it was or
\* lowers it, and a successful call of ucp_rma_request_advance lowers it
\* by exactly its frag_length, not below 0
LengthStep(r) ==
    req[r].alloc =>
        /\ req'[r].length <= req[r].length
        /\ req'[r].length >= 0
        /\ hist'[r].status \in {UCS_OK, UCS_INPROGRESS}
               => req'[r].length = req[r].length - hist'[r].frag_length
        /\ hist'[r].status \notin {UCS_OK, UCS_INPROGRESS}
               => req'[r].length = req[r].length

\* C4, as stated: the remaining length never increases, a successful
\* advance lowers it by exactly the fragment length, and every request
\* goes from a non-zero length to 0 exactly once in its lifetime.
C4_Original ==
    [][\A r \in Reqs :
          /\ LengthStep(r)
          /\ hist'[r].zero_count <= 1
          /\ (Legacy(r)' /\ req'[r].cb_count > 0)
                 => hist'[r].zero_count = 1]_vars

\* C4, amended: the remaining length never increases, a successful
\* advance lowers it by exactly the fragment length (never below 0), and
\* the length goes from a non-zero value to 0 at most once in the
\* request's lifetime: exactly once when the request completes after
\* sending all its bytes, never when a hardware error aborts it.
C4_LengthMonotonic ==
    [][\A r \in Reqs :
          /\ LengthStep(r)
          /\ hist'[r].zero_count <= 1
          /\ (Legacy(r)' /\ req'[r].cb_count > 0)
                 => IF req'[r].length = 0
                    THEN hist'[r].zero_count = 1
                    ELSE /\ hist'[r].zero_count = 0
                         /\ req'[r].comp_status \in HwErrors]_vars

\* a fragment shorter than what was left has been sent
C4_Witness ==
    \E r \in Reqs :
        /\ Legacy(r) /\ req[r].alloc
        /\ hist[r].status \in {UCS_OK, UCS_INPROGRESS}
        /\ hist[r].frag_length > 0
        /\ req[r].length = hist[r].prev_length - hist[r].frag_length
        /\ req[r].length > 0

\* C7: the status given to the user callback is OK iff every fragment of
\* the request ended with OK, and otherwise the first status other than
\* OK among those the engine saw, whatever came after it.
C7_FirstErrorWins ==
    \A r \in Reqs :
        req[r].cb_count > 0
            => /\ req[r].cb_status = hist[r].first_bad
               /\ (req[r].cb_status = UCS_OK) <=> (hist[r].first_bad = UCS_OK)

\* a request that sent all its bytes and was completed with the error of
\* a hardware completion
C7_Witness ==
    \E r \in Reqs :
        /\ Legacy(r) /\ req[r].cb_count = 1
        /\ req[r].cb_status \in HwErrors
        /\ req[r].length = 0 /\ req[r].dt_offset = 0

(***************************************************************************)
(* Properties of the entry points (specification SpecApi)                  *)
(***************************************************************************)
\* the call recorded in "call" has returned
Returned == call.op # NONE /\ call.ret # NONE

\* the returned call took no request, registered nothing and issued no
\* hardware operation
NoEffect == call.slot = 0 /\ call.hw_short = 0

\* the returned call never entered the worker critical section
BeforeCS == call.cs_enter = 0 /\ call.cs_exit = 0

ForceImm == UCP_OP_ATTR_FLAG_FORCE_IMM_CMPL \in call.mask

\* the call got past UCP_RMA_CHECK_PTR
PassedChecks ==
    UCP_RMA_CHECK_PTR(cfg, call.buffer_null, call.count) = PASS

\* the legacy call stopped at UCP_RKEY_RESOLVE
ResolveFailed ==
    /\ ~cfg.proto_enable
    /\ call.ret = UCS_ERR_UNREACHABLE
    /\ call.hw_short = 0 /\ call.slot = 0

\* C5, as stated: every PUT or GET of length 0 returns OK, whatever the
\* context features, the buffer and the flags, with no request, no
\* registration and no hardware operation.
C5_Original ==
    (Returned /\ call.count = 0) => (call.ret = UCS_OK /\ NoEffect)

\* C5, amended: every PUT, and every GET without FORCE_IMM_CMPL, of length
\* 0 on a context with the RMA feature returns OK for every buffer value
\* and every other flag, before the critical section, with no request, no
\* registration and no hardware operation.
C5_ZeroLength ==
    (/\ Returned /\ call.count = 0
     /\ cfg.features_rma
     /\ ~(call.op = "GET" /\ ForceImm))
        => (call.ret = UCS_OK /\ NoEffect /\ BeforeCS)

\* a GET of length 0 with a NULL buffer and flags set, in a build that
\* checks parameters, has returned OK
C5_Witness ==
    /\ Returned /\ call.op = "GET" /\ call.count = 0
    /\ call.buffer_null /\ cfg.params_check /\ cfg.features_rma
    /\ call.mask = {UCP_OP_ATTR_FIELD_DATATYPE, UCP_OP_ATTR_FLAG_NO_IMM_CMPL}
    /\ call.ret = UCS_OK

\* C6, as stated: a PUT or GET on a context without the RMA feature, and
\* a PUT or GET with a NULL buffer and length > 0, return InvalidParam
\* before the critical section, with no request and no hardware operation.
C6_Original ==
    (/\ Returned
     /\ ~cfg.features_rma \/ (call.buffer_null /\ call.count > 0))
        => (call.ret = UCS_ERR_INVALID_PARAM /\ NoEffect /\ BeforeCS)

\* C6, amended: in a build that checks parameters, a PUT, or a GET
\* without FORCE_IMM_CMPL, on a context without the RMA feature, and one
\* with a NULL buffer and length > 0, return InvalidParam before the
\* critical section, with no request and no hardware operation; a GET with
\* FORCE_IMM_CMPL returns the no-resource error instead, as early.
C6_InvalidParam ==
    (/\ Returned
     /\ ~cfg.features_rma \/ (call.buffer_null /\ call.count > 0))
        => IF call.op = "GET" /\ ForceImm
           THEN call.ret = UCS_ERR_NO_RESOURCE /\ NoEffect /\ BeforeCS
           ELSE cfg.params_check
                   => /\ call.ret = UCS_ERR_INVALID_PARAM
                      /\ NoEffect /\ BeforeCS

\* a PUT with a NULL buffer and length > 0 on a context with the RMA
\* feature has been rejected
C6_Witness ==
    /\ Returned /\ call.op = "PUT"
    /\ call.buffer_null /\ call.count > 0 /\ cfg.features_rma
    /\ call.ret = UCS_ERR_INVALID_PARAM

\* the PUT is eligible for the inline fast path: within the short
\* threshold, no datatype, inline completion not ruled out, no fence
ShortEligible ==
    /\ call.op = "PUT"
    /\ call.count <= cfg.max_put_short
    /\ call.mask \cap {UCP_OP_ATTR_FIELD_DATATYPE,
                       UCP_OP_ATTR_FLAG_NO_IMM_CMPL} = {}
    /\ ~call.fence

\* C8, as stated, read for a PUT that passes the parameter checks and
\* whose remote key resolves: an eligible PUT issues exactly one inline
\* hardware put, takes no request, registers nothing and returns the
\* status of that put.
C8_Original ==
    (Returned /\ ShortEligible /\ PassedChecks /\ ~ResolveFailed)
        => /\ call.hw_short = 1
           /\ call.slot = 0
           /\ call.ret = call.hw_status

\* C8, amended: an eligible PUT that passes the parameter checks and,
\* on the legacy path, whose remote key resolves, issues exactly one
\* inline hardware put; unless that put reports no resources and
\* FORCE_IMM_CMPL is not set, the call takes no request, registers nothing
\* and returns the status of that put.
C8_InlineShort ==
    (Returned /\ ShortEligible /\ PassedChecks /\ ~ResolveFailed)
        => /\ call.hw_short = 1
           /\ (call.hw_status # UCS_ERR_NO_RESOURCE \/ ForceImm)
                  => (call.slot = 0 /\ call.ret = call.hw_status)

\* an inline put failed with a hardware error, which the call returned
C8_Witness ==
    /\ Returned /\ ShortEligible /\ PassedChecks
    /\ call.hw_short = 1 /\ call.hw_status = UCS_ERR_IO_ERROR
    /\ call.ret = UCS_ERR_IO_ERROR /\ call.slot = 0

\* the inline put of the call reported no send resources and the caller
\* did not force immediate completion
InlineNoResource ==
    /\ call.op = "PUT"
    /\ call.hw_short = 1 /\ call.hw_status = UCS_ERR_NO_RESOURCE
    /\ ~ForceImm

\* C9, as stated: after an inline put without resources and without
\* FORCE_IMM_CMPL, ucp_put_nbx does not return the no-resource error: it
\* allocates a request and hands it to the send path.
C9_Original ==
    (Returned /\ InlineNoResource)
        => /\ call.ret # UCS_ERR_NO_RESOURCE
           /\ call.slot # 0
           /\ req[call.slot].sent

\* C9, amended: after an inline put without resources and without
\* FORCE_IMM_CMPL, ucp_put_nbx never returns the no-resource error: it
\* allocates a request and hands it to the send path, unless the pool is
\* exhausted (NoMemory, no request) or, on the legacy path, the zero-copy
\* registration fails (its error is returned and the request is not
\* handed to the send path).
C9_Fallback ==
    (Returned /\ InlineNoResource)
        => /\ call.ret # UCS_ERR_NO_RESOURCE
           /\ \/ /\ call.ret = PTR
                 /\ call.slot # 0 /\ req[call.slot].sent
              \/ /\ call.ret = UCS_ERR_NO_MEMORY
                 /\ call.slot = 0
                 /\ \A r \in Reqs : req[r].alloc
              \/ /\ ~cfg.proto_enable
                 /\ call.ret = UCS_ERR_IO_ERROR
                 /\ call.slot # 0
                 /\ ~req[call.slot].sent /\ req[call.slot].reg_count = 0

\* the fallback happened on the legacy path
C9_Witness ==
    /\ Returned /\ InlineNoResource /\ ~cfg.proto_enable
    /\ call.ret = PTR /\ call.slot # 0 /\ req[call.slot].sent

\* C10, as stated: a PUT with FORCE_IMM_CMPL never takes a request and
\* never registers memory; it returns the status of the single inline put,
\* or the no-resource error when there was no inline put.
C10_Original ==
    (Returned /\ call.op = "PUT" /\ ForceImm)
        => /\ call.slot = 0
           /\ IF call.hw_short = 1 THEN call.ret = call.hw_status
              ELSE call.ret = UCS_ERR_NO_RESOURCE

\* C10, amended: a PUT with FORCE_IMM_CMPL never takes a request and never
\* registers memory; if it passes the parameter checks and, on the legacy
\* path, its remote key resolves, it returns the status of the single
\* inline put, or the no-resource error when there was no inline put.
C10_ForceImm ==
    (Returned /\ call.op = "PUT" /\ ForceImm)
        => /\ call.slot = 0
           /\ (PassedChecks /\ ~ResolveFailed)
                  => IF call.hw_short = 1 THEN call.ret = call.hw_status
                     ELSE call.ret = UCS_ERR_NO_RESOURCE

\* a PUT above the short threshold with FORCE_IMM_CMPL got the no-resource
\* error
C10_Witness ==
    /\ Returned /\ call.op = "PUT" /\ ForceImm /\ PassedChecks
    /\ call.count > cfg.max_put_short
    /\ call.hw_short = 0
    /\ call.ret = UCS_ERR_NO_RESOURCE /\ call.slot = 0

\* C11: whenever a fence is required on the endpoint, a PUT does not use the
\* inline hardware fast path, in the proto-enabled and in the legacy
\* configuration and for every length.
C11_FenceNoInline ==
    (Returned /\ call.op = "PUT" /\ call.fence) => call.hw_short = 0

\* C12: a request of the legacy request path whose length is below the
\* zero-copy threshold of its direction is a buffered-copy request and its
\* user buffer is never registered; one whose length reaches the threshold
\* is a zero-copy request, registered once by the time it is handed to the
\* send path, that is, before any hardware operation is issued for it.
C12_ZcopyThreshold ==
    \A r \in Reqs :
        (Legacy(r) /\ req[r].alloc) =>
            IF hist[r].init_length < zcopy_thresh(cfg, req[r].op)
            THEN /\ req[r].comp_func = "bcopy"
                 /\ req[r].reg_count = 0 /\ ~req[r].memh
            ELSE /\ req[r].comp_func = "zcopy"
                 /\ req[r].sent => (req[r].reg_count = 1 /\ req[r].memh)
                 /\ ~req[r].sent => (req[r].reg_count = 0 /\ hist[r].status = NONE)

\* a zero-copy request has had a fragment attempt, with its buffer
\* registered
C12_Witness ==
    \E r \in Reqs :
        /\ Legacy(r) /\ req[r].alloc /\ req[r].comp_func = "zcopy"
        /\ req[r].reg_count = 1
        /\ hist[r].status = UCS_INPROGRESS

C14_BufferOrder ==
    [][\A r \in Reqs :
          (Legacy(r) /\ req[r].alloc) =>
              /\ req'[r].remote_addr >= req[r].remote_addr
              /\ req'[r].buffer >= req[r].buffer
              /\ (hist'[r].status \in {UCS_OK, UCS_INPROGRESS}
                     /\ req'[r].length > 0)
                    => /\ req'[r].buffer = req[r].buffer + hist'[r].frag_length
                       /\ req'[r].remote_addr =
                              req[r].remote_addr + hist'[r].frag_length
              /\ req'[r].length > 0
                    => /\ req'[r].buffer = req'[r].remote_addr
                       /\ req'[r].buffer =
                              hist'[r].init_length - req'[r].length]_vars

\* the first byte of a request has been sent and the second is next
C14_Witness ==
    \E r \in Reqs :
        /\ Legacy(r) /\ req[r].alloc
        /\ hist[r].status \in {UCS_OK, UCS_INPROGRESS}
        /\ req[r].length > 0
        /\ req[r].buffer = 1 /\ req[r].remote_addr = 1

\* request r waits in the pending queue
InPending(q, r) == \E i \in DOMAIN q : q[i] = r

\* C15: a fragment attempt answered with "no resource" changes nothing in
\* the request (remaining length, buffer pointer, remote address, counter
\* and status are what they were) and ucp_rma_request_advance returns
\* NO_RESOURCE: the request leaves the send loop for the pending queue, or
\* stays in the queue, from where the same fragment is tried again.
C15_NoResourceFrame ==
    [][\A r \in Reqs :
          hist'[r].status = UCS_ERR_NO_RESOURCE
              => /\ req'[r] = req[r]
                 /\ req'[r].alloc /\ req'[r].length > 0
                 /\ InPending(pending', r)
                 /\ sending' # r]_vars

\* after a partial send the next fragment found no resources
C15_Witness ==
    \E r \in Reqs :
        /\ Legacy(r) /\ req[r].alloc
        /\ hist[r].status = UCS_ERR_NO_RESOURCE
        /\ req[r].length > 0 /\ req[r].length < hist[r].init_length
        /\ InPending(pending, r)

\* the step is a fragment attempt on live request r that the hardware
\* answered with an error other than "no resource", and it left the
\* remaining length, the buffer pointer and the remote address alone and
\* ended the sending of the request: r is neither in the send loop nor in
\* the pending queue afterwards
HardErrorStep(r) ==
    /\ req'[r].length = req[r].length
    /\ req'[r].buffer = req[r].buffer
    /\ req'[r].remote_addr = req[r].remote_addr
    /\ ~InPending(pending', r)
    /\ sending' # r
    /\ req'[r].cb_count <= 1
    /\ req'[r].cb_count = 1 \/ inflight'[r] > 0

\* C16, as stated: after a hardware error other than no-resource the
\* engine does not retry: length, buffer and remote address stay, no
\* further fragment is issued, and that error status is delivered to the
\* user callback, once.
C16_Original ==
    [][\A r \in Reqs :
          (req[r].alloc /\ hist'[r].status \in HwErrors)
              => /\ HardErrorStep(r)
                 /\ req'[r].cb_count = 1
                       => req'[r].cb_status = hist'[r].status]_vars

\* C16, amended: after a hardware error other than no-resource the engine
\* does not retry: length, buffer and remote address stay, no further
\* fragment is issued, and an error status is delivered to the user
\* callback, once: that of this fragment unless an earlier fragment of the
\* request has already failed, whose status is then the one delivered.
C16_HardError ==
    [][\A r \in Reqs :
          (req[r].alloc /\ hist'[r].status \in HwErrors)
              => /\ HardErrorStep(r)
                 /\ req'[r].comp_status = hist'[r].first_bad
                 /\ req'[r].comp_status \in HwErrors
                 /\ hist[r].first_bad = UCS_OK
                       => req'[r].comp_status = hist'[r].status
                 /\ req'[r].cb_count = 1
                       => req'[r].cb_status = req'[r].comp_status]_vars

\* a fragment failed while an earlier one was still in progress: the
\* request is out of the queue and waits for that completion
C16_Witness ==
    \E r \in Reqs :
        /\ Legacy(r) /\ req[r].alloc
        /\ hist[r].status \in HwErrors
        /\ inflight[r] > 0 /\ req[r].length > 0
        /\ req[r].cb_count = 0

\* the returned call got as far as asking the pool for a request: it passed
\* the checks and the key resolution, and no inline put settled it
NeedsRequest ==
    /\ Returned /\ PassedChecks /\ ~ResolveFailed
    /\ \/ call.op = "GET" /\ ~ForceImm
       \/ /\ call.op = "PUT" /\ ~ForceImm
          /\ call.hw_short = 1 => call.hw_status = UCS_ERR_NO_RESOURCE

\* the pool had no free request when the returned call asked for one
PoolExhausted == call.slot = 0 /\ \A r \in Reqs : req[r].alloc

\* C17: a PUT or GET that needs a request when the pool is exhausted
\* returns NoMemory; a call that returns NoMemory has taken no request (so
\* it registered nothing, issued no fragment and invoked no callback) and
\* has left the critical section it entered.
C17_PoolExhausted ==
    /\ (NeedsRequest /\ PoolExhausted) => call.ret = UCS_ERR_NO_MEMORY
    /\ (Returned /\ call.ret = UCS_ERR_NO_MEMORY)
          => /\ NeedsRequest /\ PoolExhausted
             /\ call.cs_enter = 1 /\ call.cs_exit = 1
             /\ \A r \in Reqs : hist[r].status = NONE /\ req[r].cb_count = 0

\* a GET on the legacy path found the pool exhausted
C17_Witness ==
    /\ Returned /\ call.op = "GET" /\ ~cfg.proto_enable
    /\ call.ret = UCS_ERR_NO_MEMORY
    /\ PoolExhausted

(***************************************************************************)
(* Progress of the request engine (specification SpecLive)                 *)
(***************************************************************************)
\* request r was handed to the send path and is not completed yet
Issued(r) == req[r].alloc /\ req[r].sent /\ Legacy(r)

\* request r has been completed: its callback ran once with OK or with a
\* hardware error, and it was given back to the pool
Finished(r) ==
    /\ ~req[r].alloc /\ req[r].completed
    /\ req[r].cb_count = 1 /\ req[r].put_count = 1
    /\ req[r].cb_status \in {UCS_OK} \cup HwErrors

\* C18: when the owner thread keeps driving progress, the transport
\* completes every fragment it accepted and NO_RESOURCE does not last for
\* ever, every issued request is eventually completed (callback invoked
\* with OK or a hardware error, request released), and no issued request
\* is ever left with length zero and no outstanding completion.
C18_EventuallyCompletes ==
    /\ \A r \in Reqs : Issued(r) ~> Finished(r)
    /\ [](\A r \in Reqs :
            Issued(r) => ~(req[r].length = 0 /\ req[r].comp_count = 0))

\* a request of two bytes has been completed without an error by its
\* second fragment, which was sent from the pending queue after an attempt
\* that found no send resources
C18_Witness ==
    \E r \in Reqs :
      /\ Finished(r) /\ Legacy(r)
      /\ hist[r].init_length = 2
      /\ hist[r].zero_count = 1
      /\ hist[r].status = UCS_OK /\ hist[r].frag_length = 1
      /\ req[r].cb_status = UCS_OK
      /\ call = NoCall

\* C19: the outstanding-completions counter of a request is raised only by
\* a zero-copy fragment that the transport left in progress, and by one; a
\* buffered-copy fragment leaves it as it was; and when a fragment that
\* completed synchronously brings the length to zero with no operation
\* outstanding, the counter is 0 and the request is completed there.
C19_BcopyCounter ==
    [][\A r \in Reqs :
         /\ req'[r].comp_count > req[r].comp_count
               => /\ hist'[r].status = UCS_INPROGRESS
                  /\ hist'[r].prev_length >= zcopy_thresh(cfg, req[r].op)
                  /\ req'[r].comp_count = req[r].comp_count + 1
         /\ (/\ hist'[r].status # NONE
             /\ hist'[r].prev_length < zcopy_thresh(cfg, req[r].op))
               => req'[r].comp_count = req[r].comp_count
         /\ (/\ hist'[r].status = UCS_OK
             /\ req'[r].length = 0
             /\ inflight[r] = 0)
               => /\ req'[r].comp_count = 0
                  /\ req'[r].cb_count = 1]_vars

\* a GET of one byte went out as one buffered-copy fragment and was
\* completed by it with the counter at 0
C19_Witness ==
    \E r \in Reqs :
      /\ req[r].op = "GET" /\ req[r].comp_func = "bcopy"
      /\ hist[r].init_length = 1
      /\ hist[r].status = UCS_OK /\ hist[r].frag_length = 1
      /\ req[r].length = 0 /\ req[r].comp_count = 0
      /\ req[r].cb_count = 1

\* C20: a call of ucp_put_nbx or ucp_get_nbx enters the worker critical
\* section at most once, and only after its parameter checks; while its
\* send loop runs it is inside; once it has returned it has left the
\* section as often as it entered it, on every path; and a call that took
\* a request or issued a hardware operation had entered the section.
C20_CriticalSection ==
    /\ call.cs_enter \in {0, 1} /\ call.cs_exit <= call.cs_enter
    /\ (call.op # NONE /\ call.ret = NONE)
          => call.cs_enter = 1 /\ call.cs_exit = 0 /\ sending = call.slot
    /\ Returned =>
          /\ call.cs_exit = call.cs_enter
          /\ call.cs_enter = 1
                <=> PassedChecks /\ (call.op = "PUT" \/ ~ForceImm)
          /\ (call.slot # 0 \/ call.hw_short = 1) => call.cs_enter = 1
    /\ sending # 0 => call.op # NONE /\ call.ret = NONE

\* a legacy GET has returned the status of a failed key resolution, having
\* entered and left the critical section
C20_Witness ==
    /\ Returned /\ call.op = "GET" /\ ResolveFailed
    /\ call.cs_enter = 1 /\ call.cs_exit = 1

\* C30: a call that took a request from the pool and returned a status
\* instead of the request (which was never handed to the send path) has given the
\* request back: the slot is not left allocated.
C30_RequestReturned ==
    (Returned /\ call.slot # 0 /\ call.ret # PTR)
        => ~req[call.slot].alloc

(***************************************************************************)
(* Properties of the packed remote key (specification SpecRkey)            *)
(***************************************************************************)
\* C29: unpacking the header of a packed remote key yields the MD bitmap
\* held in the first sizeof(ucp_md_map_t) bytes and the memory type held
\* in the one byte right after them; the two reads touch every offset up
\* to sizeof(ucp_md_map_t) and none beyond it, and the key material lies
\* after that byte, one key per MD of the bitmap.
C29_PackedHeader ==
    rk.unpacked =>
        /\ rk.md_map = rk.packed_md_map
        /\ rk.mem_type = rk.packed_mem_type
        /\ rk.md_map = MdMapOfBytes(SubSeq(rk.buffer, 1, SizeofMdMap))
        /\ rk.mem_type = rk.buffer[SizeofMdMap + 1]
        /\ rk.reads = 0..SizeofMdMap
        /\ Len(rk.buffer) = SizeofMdMap + 1 + Cardinality(rk.md_map)

\* a key of a region of memory type 3 registered on MDs 1, 9 and 63 has
\* been unpacked; the second byte of its bitmap differs from the type
C29_Witness ==
    /\ rk.unpacked
    /\ rk.md_map = {1, 9, 63} /\ rk.mem_type = 3
    /\ rk.buffer[2] # rk.mem_type

(***************************************************************************)
(* Properties of the registrar (specification SpecRereg)                   *)
(***************************************************************************)
\* the array uct_memh is the dense array of the map md_map: one key per
\* MD of the map, the key of MD i at the slot counting the MDs below i
Dense(uct_memh, md_map) ==
    /\ Len(uct_memh) = Cardinality(md_map)
    /\ \A i \in md_map : uct_memh[MemhSlot(md_map, i)].md = i

Last == um.last

ToAdd == Last.reg_md_map \ Last.md_map

ToRemove == Last.md_map \ Last.reg_md_map

C23_Reregistered ==
    (Last.called /\ Last.status = UCS_OK) =>
        /\ um.md_map = Last.reg_md_map
        /\ Dense(um.uct_memh, um.md_map)
        /\ \A m \in ToAdd :
              /\ um.regs[m] = 1
              /\ Last.reg_calls[m] = 1 - Last.regs[m]
              /\ Last.dereg_calls[m] = 0
        /\ \A m \in ToRemove :
              /\ um.regs[m] = 0
              /\ Last.reg_calls[m] = 0
              /\ Last.dereg_calls[m] = 1
        /\ \A m \in Last.md_map \cap Last.reg_md_map :
              /\ um.regs[m] = 1
              /\ Last.reg_calls[m] = 0 /\ Last.dereg_calls[m] = 0
              /\ um.uct_memh[MemhSlot(um.md_map, m)]
                    = Last.uct_memh[MemhSlot(Last.md_map, m)]
        /\ \A m \in Mds \ (Last.md_map \cup Last.reg_md_map) :
              /\ um.regs[m] = Last.regs[m]
              /\ Last.reg_calls[m] = 0 /\ Last.dereg_calls[m] = 0

\* a successful call added one MD, removed another and kept a third
C23_Witness ==
    /\ Last.called /\ Last.status = UCS_OK
    /\ ToAdd # {} /\ ToRemove # {}
    /\ Last.md_map \cap Last.reg_md_map # {}
    /\ \E m \in ToAdd : Last.reg_calls[m] = 1

\* C28: when the allocation MD supplied by the caller is among the MDs a
\* call has to add, no register call is made on it; when the call
\* succeeds the allocation's key is at that MD's slot and every other
\* added MD got exactly one register call.
C28_AllocMd ==
    (Last.called /\ Last.alloc_md \in ToAdd) =>
        /\ Last.reg_calls[Last.alloc_md] = 0
        /\ Last.status = UCS_OK =>
              /\ um.uct_memh[MemhSlot(um.md_map, Last.alloc_md)]
                    = AllocKey(Last.alloc_md)
              /\ \A m \in ToAdd \ {Last.alloc_md} :
                    /\ Last.reg_calls[m] = 1
                    /\ um.uct_memh[MemhSlot(um.md_map, m)] = RegKey(m)

\* a successful call added the allocation MD between two MDs it registered
C28_Witness ==
    /\ Last.called /\ Last.status = UCS_OK
    /\ Last.alloc_md = 1 /\ ToAdd = {0, 1, 2}
    /\ um.uct_memh[2] = AllocKey(1)
    /\ Last.reg_calls[0] = 1 /\ Last.reg_calls[2] = 1

(***************************************************************************)
(* Properties of the registration cache (specification SpecMemh)           *)
(***************************************************************************)
\* the handle the last operation on the cache was about
LastMemh == mh.memh[mh.last.h]

\* the MDs a step deregisters handle h from
Deregistered(h) ==
    {m \in Mds : mh'.memh[h].regs[m] < mh.memh[h].regs[m]}

C25_InvSubset ==
    \A h \in Memhs : mh.memh[h].inv_md_map \subseteq mh.memh[h].md_map

\* a handle registered on two MDs and still referenced, one of which was
\* marked for invalidation by a call that named both an MD of the handle
\* and, earlier or now, nothing else of it
C25_Witness ==
    /\ mh.last.op = "invalidate"
    /\ LastMemh.refcount > 0
    /\ LastMemh.md_map = MemhMds
    /\ LastMemh.inv_md_map # {}
    /\ LastMemh.inv_md_map # LastMemh.md_map

\* C26: no page is covered by two entries of the cache; and a request for
\* a range that overlaps an entry adds no entry: when it succeeds it gets
\* an entry that was in the cache, which keeps its pages, grows only over
\* pages of the range and covers the pages of the range that no other
\* entry covers.
C26_OneEntryPerAddress ==
    /\ [](\A g, h \in Memhs :
             (g # h /\ mh.memh[g].in_cache /\ mh.memh[h].in_cache) =>
                mh.memh[g].pages \cap mh.memh[h].pages = {})
    /\ [][(mh'.last.op = "get" /\ mh'.last.overlap) =>
             /\ \A g \in Memhs : mh'.memh[g].in_cache = mh.memh[g].in_cache
             /\ mh'.last.status = UCS_OK =>
                   /\ mh.memh[mh'.last.h].in_cache
                   /\ mh.memh[mh'.last.h].pages
                         \subseteq mh'.memh[mh'.last.h].pages
                   /\ mh'.memh[mh'.last.h].refcount
                         = mh.memh[mh'.last.h].refcount + 1
                   /\ \A g \in Memhs \ {mh'.last.h} :
                         mh'.memh[g] = mh.memh[g]]_vars

\* a request for a range that overlapped an entry got that entry, which
\* now covers all pages and is referenced twice; the cache holds no other
C26_Witness ==
    /\ mh.last.op = "get" /\ mh.last.overlap /\ mh.last.status = UCS_OK
    /\ LastMemh.in_cache
    /\ LastMemh.pages = Pages
    /\ LastMemh.refcount = 2
    /\ \A g \in Memhs \ {mh.last.h} : ~mh.memh[g].in_cache

CallbackStep(r) ==
    /\ inflight'[r] = inflight[r] - 1
    /\ req[r].comp_count = 1

\* what the completion callback can touch is the same in q and p
SameButCounter(q, p) ==
    p = [q EXCEPT !.comp_count = p.comp_count,
                  !.comp_status = p.comp_status]

\* C31: a completion callback run by a hardware completion completes the
\* request (id released, buffer deregistered if it was registered, user
\* callback invoked, request back in the pool) if and only if the
\* remaining length equals the processed offset at that moment; when they
\* differ it changes nothing of the request.  And whatever runs the
\* callback, a request of the legacy path is only ever completed with the
\* two equal.
C31_CallbackLengthCheck ==
    [][\A r \in Reqs :
          /\ CallbackStep(r) =>
                IF req[r].length = req[r].dt_offset
                THEN /\ req'[r].cb_count = req[r].cb_count + 1
                     /\ req'[r].id_released = req[r].id_released + 1
                     /\ req'[r].completed /\ ~req'[r].alloc
                     /\ ~req'[r].memh
                     /\ req'[r].dereg_count
                           = req[r].dereg_count + (IF req[r].memh THEN 1 ELSE 0)
                ELSE SameButCounter(req[r], req'[r])
          /\ (/\ Legacy(r) /\ req[r].alloc
              /\ req'[r].cb_count > req[r].cb_count) =>
                req'[r].length = req'[r].dt_offset]_vars

\* the callback has run while unsent bytes remained and no error had moved
\* the offset: the request is still allocated and registered, its id not
\* released, its user callback not invoked
C31_Witness ==
    \E r \in Reqs :
        /\ hist[r].early_cb
        /\ req[r].alloc /\ req[r].memh
        /\ req[r].length > 0 /\ req[r].dt_offset = 0
        /\ req[r].comp_count = 0 /\ inflight[r] = 0
        /\ req[r].id_released = 0 /\ req[r].cb_count = 0
        /\ req[r].dereg_count = 0

\* the step is a call of ucp_rma_request_advance for request r with a
\* fragment the transport accepted and which is all that was left
LastFragmentStep(r) ==
    /\ hist'[r].status \in {UCS_OK, UCS_INPROGRESS}
    /\ hist'[r].frag_length = req[r].length
    /\ hist'[r].prev_length = req[r].length

\* C32: the call of ucp_rma_request_advance that brings the remaining
\* length to 0 leaves buffer and remote address where they were and
\* returns OK (the request leaves the send loop and the pending queue);
\* it completes the request in that call exactly when no zero-copy
\* operation is outstanding after this fragment.  A request left
\* uncompleted by it is completed by no later call of the progress
\* function: only by the hardware completion that brings the counter
\* to zero.
C32_LastFragment ==
    [][\A r \in Reqs :
          /\ LastFragmentStep(r) =>
                /\ req'[r].length = 0
                /\ req'[r].buffer = req[r].buffer
                /\ req'[r].remote_addr = req[r].remote_addr
                /\ sending' # r /\ ~InPending(pending', r)
                /\ IF req[r].comp_count = 0 /\ hist'[r].status = UCS_OK
                   THEN /\ req'[r].cb_count = req[r].cb_count + 1
                        /\ ~req'[r].alloc
                   ELSE /\ req'[r].cb_count = req[r].cb_count
                        /\ req'[r].alloc
                        /\ req'[r].comp_count > 0
                        /\ inflight'[r] = req'[r].comp_count
          /\ (/\ Legacy(r) /\ req[r].alloc /\ req[r].length = 0
              /\ req'[r].cb_count > req[r].cb_count) =>
                CallbackStep(r)]_vars

\* the second fragment of a request was its last and was done when the
\* call returned, while the first is still outstanding: the request is
\* not completed
C32_Witness ==
    \E r \in Reqs :
        /\ hist[r].status = UCS_OK
        /\ hist[r].prev_length = hist[r].frag_length
        /\ hist[r].init_length > hist[r].frag_length
        /\ req[r].length = 0
        /\ req[r].comp_count = 1 /\ inflight[r] = 1
        /\ req[r].alloc /\ req[r].cb_count = 0

(* ------------------------------------------------------------------ *)
(* Further properties of the entry points (specifications SpecApi and  *)
(* SpecEntry)                                                          *)
(* ------------------------------------------------------------------ *)

PutReturned == Returned /\ call.op = "PUT"

NextEntry ==
    \/ PutNbxAny
    \/ GetNbxAny
    \/ Return

\* the entry points up to the point where they return or hand a request to
\* the send loop: every combination of call parameters, no progress
SpecEntry == InitApi /\ [][NextEntry]_vars

\* C33: a PUT whose op_attr_mask carries a datatype override never
\* issues the inline short put, in the proto and in the legacy
\* configuration alike.
C33_DatatypeNoInline ==
    (PutReturned /\ UCP_OP_ATTR_FIELD_DATATYPE \in call.mask)
        => call.hw_short = 0

NoImm == UCP_OP_ATTR_FLAG_NO_IMM_CMPL \in call.mask

\* the returned call went to the request-based path: it took a request, or
\* asked the exhausted pool for one
RequestPath ==
    \/ call.slot # 0
    \/ call.ret = UCS_ERR_NO_MEMORY /\ PoolExhausted

\* C34, as stated, read for a PUT that passes the parameter checks and
\* whose remote key resolves: with NO_IMM_CMPL the PUT never issues the
\* inline short put; in both configurations it goes to the request-based
\* path and never returns the status of an inline put.
C34_Original ==
    (call.op = "PUT" /\ NoImm /\ PassedChecks /\ ~ResolveFailed)
        => /\ call.hw_short = 0
           /\ ~InlineDone
           /\ RequestPath

\* C34, amended: with NO_IMM_CMPL a PUT never issues the inline short put
\* and never returns the status of one, in both configurations; if it
\* passes the parameter checks and its remote key resolves it goes to the
\* request-based path, unless FORCE_IMM_CMPL is set as well: then it
\* returns the no-resource error without a request.
C34_NoImmCmpl ==
    (call.op = "PUT" /\ NoImm)
        => /\ call.hw_short = 0
           /\ ~InlineDone
           /\ (PassedChecks /\ ~ResolveFailed)
                  => IF ForceImm
                     THEN call.ret = UCS_ERR_NO_RESOURCE /\ call.slot = 0
                     ELSE RequestPath

\* a legacy PUT of a length below the short threshold with NO_IMM_CMPL
\* took a request
C34_Witness ==
    /\ call.op = "PUT" /\ NoImm /\ ~ForceImm /\ ~cfg.proto_enable
    /\ call.count <= cfg.max_put_short /\ ~call.fence
    /\ UCP_OP_ATTR_FIELD_DATATYPE \notin call.mask
    /\ call.hw_short = 0
    /\ call.slot # 0 /\ req[call.slot].alloc

(* ------------------------------------------------------------------ *)
(* The short threshold of the legacy PUT over the whole range of       *)
(* size_t (specification SpecShort)                                    *)
(* ------------------------------------------------------------------ *)

\* values of rkey->cache.max_put_short (ssize_t): negative when the lane
\* has no short put
Thresholds == {-1, 0, 1, 2^(SizeBits - 1) - 1}

\* legacy configurations with any short threshold
ShortConfigs ==
    { [c EXCEPT !.max_put_short = t] :
          c \in {d \in Configs : ~d.proto_enable}, t \in Thresholds }

InitShort == \E c \in ShortConfigs : InitWith(c)

\* the owner thread calls ucp_put_nbx with a count anywhere in size_t
PutNbxSized ==
    /\ call = NoCall
    /\ \E count \in size_t, buffer_null \in BOOLEAN, mask \in AttrMasks :
         \E res \in { ucp_put_nbx(cfg, req, count, buffer_null, mask, FALSE,
                                  hw_status, resolve_status, UCS_OK,
                                  reg_status) :
                          hw_status \in ShortStatuses,
                          resolve_status \in ResolveStatuses(cfg),
                          reg_status \in RegStatuses(cfg) } :
           ApplyCall("PUT", count, buffer_null, mask, FALSE, res)

NextShort ==
    \/ PutNbxSized
    \/ Return

SpecShort == InitShort /\ [][NextShort]_vars

\* C35: on the legacy PUT path a count greater than the cached short
\* threshold never results in an inline put, for every count of size_t
\* (those above the greatest signed value included) and every threshold
\* (a negative one included).
C35_ShortOnlyBelowThreshold ==
    (call.op = "PUT" /\ ~cfg.proto_enable
        /\ call.count > cfg.max_put_short)
        => call.hw_short = 0

(* ------------------------------------------------------------------ *)
(* GET and the order of the checks (specification SpecEntry)           *)
(* ------------------------------------------------------------------ *)

\* C36: ucp_get_nbx never issues an inline hardware operation; a GET of
\* length > 0 that passes the parameter checks takes a request, unless the
\* pool is exhausted (NoMemory) or the remote key does not resolve; a GET
\* with FORCE_IMM_CMPL returns the no-resource error before any check, any
\* entry of the critical section, any allocation and any hardware
\* operation.
C36_GetNoFastPath ==
    call.op = "GET"
        => /\ call.hw_short = 0 /\ call.hw_status = NONE
           /\ ForceImm
                  => /\ call.ret = UCS_ERR_NO_RESOURCE
                     /\ NoEffect /\ BeforeCS
           /\ (~ForceImm /\ PassedChecks)
                  => \/ call.slot # 0 /\ req[call.slot].op = "GET"
                     \/ call.ret = UCS_ERR_NO_MEMORY /\ PoolExhausted
                     \/ ResolveFailed

\* a GET with FORCE_IMM_CMPL on a context without the RMA feature got the
\* no-resource error, not InvalidParam
C36_Witness ==
    /\ Returned /\ call.op = "GET" /\ ForceImm
    /\ ~cfg.features_rma /\ cfg.params_check
    /\ call.ret = UCS_ERR_NO_RESOURCE
    /\ NoEffect /\ BeforeCS

\* the returned call got as far as UCP_RMA_CHECK_PTR
ReachedChecks == Returned /\ (call.op = "PUT" \/ ~ForceImm)

\* C37: the parameter checks run in the order feature, zero length,
\* buffer.  A call on a context without the RMA feature is rejected with
\* InvalidParam whatever its length and buffer; on a context with RMA a
\* call of length 0 returns OK even with a NULL buffer; and a NULL buffer
\* is rejected only, and in a build that checks parameters always, when
\* the length is > 0.
C37_CheckOrder ==
    ReachedChecks
        => /\ ~cfg.features_rma
                  => call.ret = UCS_ERR_INVALID_PARAM /\ NoEffect
           /\ (cfg.features_rma /\ call.count = 0)
                  => call.ret = UCS_OK /\ NoEffect /\ BeforeCS
           /\ (cfg.features_rma /\ call.ret = UCS_ERR_INVALID_PARAM)
                  => call.buffer_null /\ call.count > 0
           /\ (cfg.features_rma /\ cfg.params_check
                  /\ call.buffer_null /\ call.count > 0)
                  => call.ret = UCS_ERR_INVALID_PARAM /\ NoEffect

\* a call of length 0 with a NULL buffer returned OK in a build that checks
\* parameters
C37_Witness ==
    /\ ReachedChecks
    /\ cfg.features_rma /\ cfg.params_check
    /\ call.count = 0 /\ call.buffer_null
    /\ call.ret = UCS_OK /\ NoEffect

(* ------------------------------------------------------------------ *)
(* Polling a completion queue (specification SpecCq)                   *)
(* ------------------------------------------------------------------ *)

InitCq ==
    /\ RmaIdle
    /\ MmInit

\* the device adds a completion to the queue
CqPost ==
    /\ ~cq.fatal
    /\ cq.queued < MaxCqe
    /\ cq' = [cq EXCEPT !.queued = @ + 1]
    /\ UNCHANGED <<rmavars, mmvars, nbi, wd>>

\* a progress function calls uct_ib_poll_cq with room for *count entries
CqPoll ==
    /\ ~cq.fatal
    /\ \E count \in 0..MaxCqe :
         \E ret \in ibv_poll_cq(cq.queued, count) :
           LET res == uct_ib_poll_cq(count, ret)
           IN  cq' = [ queued    |-> IF ret > 0 THEN cq.queued - ret
                                     ELSE cq.queued,
                       called    |-> TRUE,
                       count_in  |-> count,
                       ret       |-> ret,
                       status    |-> res.status,
                       count_out |-> res.count,
                       fatal     |-> res.fatal ]
    /\ UNCHANGED <<rmavars, mmvars, nbi, wd>>

NextCq ==
    \/ CqPost
    \/ CqPoll

SpecCq == InitCq /\ [][NextCq]_vars

\* C39: uct_ib_poll_cq returns "no progress" and leaves *count as it was
\* when ibv_poll_cq yields no entry, returns OK with *count set to the
\* number of entries when it yields a positive number, and does not return
\* to its caller when the poll result is negative (the process aborts).
C39_PollCq ==
    cq.called
        => /\ cq.ret = 0
                  => /\ ~cq.fatal
                     /\ cq.status = UCS_ERR_NO_PROGRESS
                     /\ cq.count_out = cq.count_in
           /\ cq.ret > 0
                  => /\ ~cq.fatal
                     /\ cq.status = UCS_OK
                     /\ cq.count_out = cq.ret
           /\ cq.ret < 0 => cq.fatal /\ cq.status = NONE
           /\ ~cq.fatal => cq.ret >= 0

\* a poll with room for several entries found the queue empty
C39_Witness ==
    /\ cq.called /\ ~cq.fatal
    /\ cq.count_in > 1 /\ cq.ret = 0
    /\ cq.status = UCS_ERR_NO_PROGRESS
    /\ cq.count_out = cq.count_in

(* ------------------------------------------------------------------ *)
(* ucp_put_nbi / ucp_get_nbi (specification SpecNbi)                   *)
(* ------------------------------------------------------------------ *)

\* UCS_PTR_IS_PTR(status_ptr)
UCS_PTR_IS_PTR(status_ptr) == status_ptr = PTR

\* ucp_request_free(request): the caller gives up its handle; a request
\* that has completed goes back to the pool, one that has not stays with
\* the engine until it completes
ucp_request_free(q) == IF q.completed THEN [q EXCEPT !.alloc = FALSE] ELSE q

\* the wrapper taking everything but an error for a request in progress
rma_nbi_ok_in_progress(status_ptr, slot) ==
    IF UCS_PTR_IS_PTR(status_ptr)
    THEN [ ret |-> UCS_INPROGRESS, slot |-> slot, free_calls |-> 1 ]
    ELSE [ ret |-> IF status_ptr = UCS_OK THEN UCS_INPROGRESS
                   ELSE status_ptr,
           slot |-> 0, free_calls |-> 0 ]

\* what ucp_put_nbi / ucp_get_nbi do with the status_ptr that
\* ucp_put_nbx / ucp_get_nbx returned: the status they return, the request
\* they release (the one in slot, if status_ptr is a request) and the number
\* of calls of ucp_request_free they make
ucp_rma_nbi(status_ptr, slot) ==
    IF UCS_PTR_IS_PTR(status_ptr)
    THEN [ ret |-> UCS_INPROGRESS, slot |-> slot, free_calls |-> 1 ]
    ELSE [ ret |-> status_ptr, slot |-> 0, free_calls |-> 0 ]

\* ucp_put_nbi / ucp_get_nbi return: the call of ucp_put_nbx / ucp_get_nbx
\* they made with ucp_request_null_param has returned, the wrapper releases
\* the request if it got one and returns to the owner thread
NbiReturn ==
    /\ call # NoCall
    /\ call.ret # NONE
    /\ call.mask = {}
    /\ LET res   == ucp_rma_nbi(call.ret, call.slot)
           freed == IF res.free_calls > 0
                    THEN [req EXCEPT ![res.slot] = ucp_request_free(@)]
                    ELSE req
       IN  /\ nbi' = res
           /\ req' = [r \in Reqs |->
                         IF ~freed[r].alloc /\ Quiet(r) THEN FreeReq
                         ELSE freed[r]]
    /\ call' = NoCall
    /\ hist' = RecycleHist
    /\ UNCHANGED <<cfg, pending, inflight, sending, uaf, mmvars, cq, wd>>

NextNbi ==
    \/ PutNbx
    \/ GetNbx
    \/ TrySend
    \/ NbiReturn
    \/ PendingDispatch
    \/ HwCompletion
    \/ ProtoComplete

\* the request engine called through the nbi wrappers only
SpecNbi == Init /\ [][NextNbi]_vars

\* C38: ucp_put_nbi and ucp_get_nbi return "in progress" exactly when the
\* nbx call produced a request; they then release the caller's handle
\* exactly once, which leaves the request with the engine as it is (it is
\* still to complete unless it has completed already); when the nbx call
\* returned a status they return that status and release nothing.
C38_Nbi ==
    [][ call' = NoCall /\ call # NoCall
          => /\ (nbi'.ret = UCS_INPROGRESS) <=> (call.ret = PTR)
             /\ call.ret = PTR
                    => /\ nbi'.free_calls = 1
                       /\ nbi'.slot = call.slot /\ call.slot # 0
                       /\ req' = Recycle
                       /\ <<pending, inflight, sending>>' =
                              <<pending, inflight, sending>>
             /\ call.ret # PTR
                    => /\ nbi'.ret = call.ret
                       /\ nbi'.free_calls = 0 /\ nbi'.slot = 0
                       /\ req' = Recycle ]_vars

\* the wrapper has returned "in progress" and released its handle while
\* the hardware still owes the request a completion
C38_Witness ==
    /\ nbi.ret = UCS_INPROGRESS /\ nbi.free_calls = 1 /\ nbi.slot # 0
    /\ call = NoCall
    /\ req[nbi.slot].alloc /\ ~req[nbi.slot].completed
    /\ req[nbi.slot].cb_count = 0
    /\ inflight[nbi.slot] > 0

(* ------------------------------------------------------------------ *)
(* The test watchdog (specification SpecWd)                            *)
(* ------------------------------------------------------------------ *)

InitWd ==
    /\ RmaIdle
    /\ MmInit

\* a step of the watchdog or of the watched thread that leaves the
\* watchdog as w
WdStep(w) ==
    /\ wd' = w
    /\ UNCHANGED <<rmavars, mmvars, nbi, cq>>

\* watchdog_start up to its barrier: the mutex, the condition variable and
\* the barrier are initialised, the fields are set under the mutex and the
\* watchdog thread is created
WatchdogStart ==
    /\ wd.main = "idle"
    /\ WdStep([wd EXCEPT !.main = "bar0", !.op = "start",
                         !.state = WATCHDOG_RUN,
                         !.timeout = "watchdog_timeout",
                         !.kill_signal = SIGABRT,
                         !.dog = "lock"])

\* watchdog_start failing: one of the pthread initialisations or
\* ucs_pthread_create failed, -1 is returned and there is no watchdog
WatchdogStartFails ==
    /\ wd.main = "idle"
    /\ WdStep([wd EXCEPT !.main = "failed"])

\* the watched thread calls pthread_barrier_wait
MainBarrierArrive ==
    /\ wd.main \in {"bar0", "bar"}
    /\ WdStep([pthread_barrier_wait(wd, WATCHED) EXCEPT
                  !.main_bars = @ + 1,
                  !.main = IF wd.main = "bar0" THEN "bar0_wait"
                           ELSE "bar_wait"])

\* pthread_barrier_wait returns to the watched thread: watchdog_start goes
\* on to watchdog_signal(), watchdog_stop to pthread_join, watchdog_set
\* and watchdog_signal return
MainBarrierLeave ==
    /\ wd.main \in {"bar0_wait", "bar_wait"}
    /\ WATCHED \in wd.go
    /\ LET w == [wd EXCEPT !.go = @ \ {WATCHED}]
       IN  WdStep(IF wd.main = "bar0_wait"
                  THEN [w EXCEPT !.main = "siglock"]
                  ELSE IF wd.op = "stop"
                  THEN [w EXCEPT !.main = "join"]
                  ELSE [w EXCEPT !.main = "ready", !.op = NONE])

\* the watched thread calls watchdog_signal(true)
WatchdogSignal ==
    /\ wd.main = "ready"
    /\ wd.calls < MaxCalls
    /\ WdStep([wd EXCEPT !.main = "siglock", !.op = "signal",
                         !.calls = @ + 1])

\* the watched thread calls watchdog_set(new_state, new_timeout)
WatchdogSet ==
    /\ wd.main = "ready"
    /\ wd.calls < MaxCalls
    /\ \E new_state \in SetStates, new_timeout \in Timeouts :
         WdStep([wd EXCEPT !.main = "lock", !.op = "set",
                           !.new_state = new_state,
                           !.new_timeout = new_timeout,
                           !.calls = @ + 1])

\* the watched thread calls watchdog_stop
WatchdogStop ==
    /\ wd.main = "ready"
    /\ WdStep([wd EXCEPT !.main = "lock", !.op = "stop",
                         !.new_state = WATCHDOG_STOP])

\* pthread_mutex_lock of the watched thread, in watchdog_set and
\* watchdog_stop ("lock") and in watchdog_signal ("siglock")
MainLock ==
    /\ wd.main \in {"lock", "siglock"}
    /\ mutex_free_for(wd, WATCHED)
    /\ WdStep([pthread_mutex_lock(wd, WATCHED) EXCEPT
                  !.main = IF wd.main = "lock" THEN "store" ELSE "cond"])

\* watchdog_set stores the timeout and the state, watchdog_stop the state
MainStore ==
    /\ wd.main = "store"
    /\ WdStep([wd EXCEPT !.main = "siglock",
                         !.state = wd.new_state,
                         !.timeout = IF wd.op = "set" THEN wd.new_timeout
                                     ELSE @])

\* pthread_cond_signal in watchdog_signal
MainCondSignal ==
    /\ wd.main = "cond"
    /\ WdStep([pthread_cond_signal(wd) EXCEPT !.main = "sigunlock"])

\* pthread_mutex_unlock of the watched thread: the one of watchdog_signal
\* ("sigunlock"), after which watchdog_signal(true) goes to the barrier and
\* watchdog_signal(0) returns to watchdog_set / watchdog_stop, and the one
\* of watchdog_set / watchdog_stop ("unlock")
MainUnlock ==
    /\ wd.main \in {"sigunlock", "unlock"}
    /\ WdStep([pthread_mutex_unlock(wd) EXCEPT
                  !.main = IF wd.main = "sigunlock"
                              /\ wd.op \in {"set", "stop"}
                           THEN "unlock" ELSE "bar"])

\* pthread_join in watchdog_stop returns, and the barrier, the condition
\* variable and the mutex are destroyed
MainJoin ==
    /\ wd.main = "join"
    /\ wd.dog = "exited"
    /\ WdStep([wd EXCEPT !.main = "stopped", !.op = NONE])

\* pthread_mutex_lock at the head of watchdog_func
DogLock ==
    /\ wd.dog = "lock"
    /\ mutex_free_for(wd, WATCHDOG)
    /\ WdStep([pthread_mutex_lock(wd, WATCHDOG) EXCEPT !.dog = "bar0"])

\* the watchdog thread calls pthread_barrier_wait, holding the mutex
DogBarrierArrive ==
    /\ wd.dog \in {"bar0", "bar"}
    /\ WdStep([pthread_barrier_wait(wd, WATCHDOG) EXCEPT
                  !.dog_bars = @ + 1,
                  !.dog = IF wd.dog = "bar0" THEN "bar0_wait"
                          ELSE "bar_wait"])

\* pthread_barrier_wait returns to the watchdog thread
DogBarrierLeave ==
    /\ wd.dog \in {"bar0_wait", "bar_wait"}
    /\ WATCHDOG \in wd.go
    /\ WdStep([wd EXCEPT !.go = @ \ {WATCHDOG},
                         !.dog = IF wd.dog = "bar0_wait" THEN "timedwait"
                                 ELSE "switch"])

\* pthread_cond_timedwait is called: the mutex is released and the
\* watchdog thread blocks, in one atomic step
DogTimedWait ==
    /\ wd.dog = "timedwait"
    /\ WdStep([pthread_mutex_unlock(wd) EXCEPT !.dog = "wait"])

\* pthread_cond_timedwait returns 0: the wait has been ended and the mutex
\* is free again
DogWake ==
    /\ wd.dog = "wait"
    /\ wd.woken
    /\ mutex_free_for(wd, WATCHDOG)
    /\ WdStep([pthread_mutex_lock(wd, WATCHDOG) EXCEPT
                  !.dog = "bar", !.woken = FALSE, !.ret = 0,
                  !.wakes = @ + 1])

\* the wait ends although nobody signalled the condition variable, which
\* POSIX allows pthread_cond_timedwait to do (a spurious wakeup)
DogSpuriousWakeup ==
    /\ wd.dog = "wait"
    /\ ~wd.woken
    /\ ~wd.spurious
    /\ WdStep([wd EXCEPT !.woken = TRUE, !.spurious = TRUE])

\* pthread_cond_timedwait returns ETIMEDOUT: the watchdog reports the
\* failure and kills the watched thread with watchdog.kill_signal
DogTimeout ==
    /\ wd.dog = "wait"
    /\ ~wd.woken
    /\ mutex_free_for(wd, WATCHDOG)
    /\ wd.main \notin {"stopped", "killed"}
    /\ WdStep([pthread_mutex_lock(wd, WATCHDOG) EXCEPT
                  !.dog = "switch", !.ret = ETIMEDOUT,
                  !.timed_out = TRUE, !.main = "killed"])

\* the switch on watchdog.state and the loop condition: the loop goes back
\* to the timed wait, or ends, releasing the mutex, and the thread returns
DogSwitch ==
    /\ wd.dog = "switch"
    /\ LET w == watchdog_switch(wd)
       IN  WdStep(IF w.ret = 0
                  THEN [w EXCEPT !.dog = "timedwait"]
                  ELSE [pthread_mutex_unlock(w) EXCEPT !.dog = "exited"])

\* the steps of the watched thread
MainStep ==
    \/ WatchdogStart
    \/ MainBarrierArrive
    \/ MainBarrierLeave
    \/ WatchdogSignal
    \/ WatchdogSet
    \/ WatchdogStop
    \/ MainLock
    \/ MainStore
    \/ MainCondSignal
    \/ MainUnlock
    \/ MainJoin

\* the steps the watchdog thread takes by itself
DogStep ==
    \/ DogLock
    \/ DogBarrierArrive
    \/ DogBarrierLeave
    \/ DogTimedWait
    \/ DogWake
    \/ DogSwitch

NextWd ==
    \/ MainStep
    \/ DogStep
    \/ WatchdogStartFails
    \/ DogSpuriousWakeup
    \/ DogTimeout

\* both threads are scheduled: a thread that can take a step takes one.
\* Neither a timeout nor a spurious wakeup is ever bound to happen
FairnessWd ==
    /\ WF_vars(MainStep)
    /\ WF_vars(DogStep)

SpecWd == InitWd /\ [][NextWd]_vars /\ FairnessWd

\* the watched thread is inside watchdog_start, watchdog_set,
\* watchdog_signal or watchdog_stop
InWatchdogCall == wd.op # NONE

\* C40: as long as no timeout expires, every call of watchdog_set,
\* watchdog_signal(true) and watchdog_stop made by the watched thread after
\* watchdog_start returns (watchdog_stop with the watchdog thread joined);
\* no signal is sent while the watchdog is not blocked in its timed wait;
\* and between two calls the watchdog has woken up once per signal and the
\* two threads have met at the barrier once per signal (and once in
\* watchdog_start).
C40_WatchdogHandshake ==
    /\ []~wd.lost
    /\ [](wd.main \in {"ready", "stopped"}
              => /\ wd.wakes = wd.signals
                 /\ wd.main_bars = wd.signals + 1
                 /\ wd.dog_bars = wd.signals + 1)
    /\ [](wd.main = "stopped" => wd.dog = "exited" /\ wd.owner = NONE)
    /\ (InWatchdogCall ~> (~InWatchdogCall \/ wd.timed_out))
    /\ (wd.op = "stop" ~> (wd.main = "stopped" \/ wd.timed_out))

====
